---- MODULE Spec2Model ----
(***************************************************************************)
(* Model of the cloud-ingest web console backend (webconsole/backend):     *)
(* the Spanner tables JobConfigs / JobRuns / Tasks, the transactional      *)
(* "delete job configs if idle" operation of spannerwrapper.py, its HTTP   *)
(* route in main.py, the GaxError decorator, and the job creation paths.   *)
(***************************************************************************)
EXTENDS Integers, Sequences, FiniteSets, TLC

(***************************************************************************)
(* Bounds of the model.                                                    *)
(***************************************************************************)
\* Longest list of config ids a delete request carries.
MaxListLen == 2
\* Largest per-config count of tasks in progress fed to the partition
\* function when it is checked on its own.
MaxCount == 2
\* Longest list fed to the partition function when it is checked on its own.
MaxPartitionLen == 3

\* Agent processes the autoupdate script may start in one run.
MaxAgents == 2
\* Longest time one time.sleep(1) of a polling loop takes, in seconds.
MaxSleep == 2
\* Statuses of an infrastructure that differ from the status the other
\* components share.
MaxDeviants == 1

\* Most rows of the JobRuns table a client pages through.
MaxJobRuns == 3
\* Most create-infrastructure requests in flight for one project.
MaxCreators == 2
\* Most subscriptions of one Pub/Sub topic.
MaxSubscriptions == 2
\* Largest initial_total_tasks given to create_job_run.
MaxInitialTotalTasks == 8
\* Most rows of the Tasks table a query reads.
MaxTasks == 2
\* Latest JobCreationTime / LastModificationTime of a row.
MaxTime == 2
\* Largest max_num_runs / max_num_tasks a query is given, below ROW_CAP.
MaxPageSize == 2
ConfigIds == {"a", "b"}
RunIds == {"r1"}
TaskIds == {"list"}

(***************************************************************************)
(* Program constants.                                                      *)
(***************************************************************************)
TASK_STATUS_UNQUEUED == 0
TASK_STATUS_QUEUED == 1
TASK_STATUS_FAILED == 2
TASK_STATUS_SUCCESS == 3
TASK_TYPE_LIST == 1
\* TaskType.Type.values() of proto/tasks.proto: the zero value every enum
\* has, and LIST, COPY, LOAD.
TaskTypeValues == 0..3
JOB_STATUS_IN_PROGRESS == 1
\* SpannerWrapper.ROW_CAP
ROW_CAP == 10000
\* timeout_seconds of _wait_operation_to_complete, create_function and
\* delete_function.
timeout_seconds == 180

JOB_CONFIGS_TABLE == "JobConfigs"
JOB_RUNS_TABLE == "JobRuns"
TASKS_TABLE == "Tasks"

(***************************************************************************)
(* Sequence helpers.                                                       *)
(***************************************************************************)
Range(s) == {s[i] : i \in DOMAIN s}

SeqsUpTo(S, n) == UNION {[1..k -> S] : k \in 0..n}

\* ', '.join(names) as a sequence of tokens: the names with a separator
\* token between consecutive ones.
RECURSIVE Join(_, _)
Join(names, sep) ==
    IF Len(names) = 0 THEN <<>>
    ELSE IF Len(names) = 1 THEN <<names[1]>>
    ELSE <<names[1], sep>> \o Join(Tail(names), sep)

(***************************************************************************)
(* spannerwrapper.py: the in-progress query and the partition.             *)
(***************************************************************************)
\* SELECT COUNT(*) FROM Tasks WHERE JobConfigId = @config
\*   AND (Status = QUEUED OR Status = UNQUEUED), evaluated on a Tasks table.
get_tasks_in_progress_query(tasksTable, config_id) ==
    Cardinality({t \in tasksTable :
                    /\ t.JobConfigId = config_id
                    /\ (t.Status = TASK_STATUS_QUEUED
                        \/ t.Status = TASK_STATUS_UNQUEUED)})

\* The per-config queries joined by UNION, which drops duplicate rows.
get_all_tasks_in_progress_union(tasksTable, config_id_list) ==
    LET counts == {get_tasks_in_progress_query(tasksTable, config_id_list[i]) :
                      i \in 1..Len(config_id_list)}
    IN  CHOOSE result \in [1..Cardinality(counts) -> counts] :
            \A i, j \in 1..Cardinality(counts) :
                i < j => result[i] < result[j]

\* The UNION ALL of the per-config queries: one row per position of
\* config_id_list, row i holding the count for config_id_list[i].
get_all_tasks_in_progress(tasksTable, config_id_list) ==
    [i \in 1..Len(config_id_list) |->
        get_tasks_in_progress_query(tasksTable, config_id_list[i])]

\* The test `tasks_count > 0` of the partition loop.
tasks_count_above_one(tasks_count) == tasks_count > 1

tasks_count_test_inverted(tasks_count) == tasks_count <= 0

tasks_count_positive(tasks_count) == tasks_count > 0

\* The loop `for i, row in enumerate(rows)` from position i on.
RECURSIVE partition_from(_, _, _, _, _)
partition_from(config_id_list, rows, i, delible_configs, indelible_configs) ==
    IF i > Len(rows)
    THEN [delible_configs |-> delible_configs,
          indelible_configs |-> indelible_configs]
    ELSE IF tasks_count_positive(rows[i])
         THEN partition_from(config_id_list, rows, i + 1, delible_configs,
                             Append(indelible_configs, config_id_list[i]))
         ELSE partition_from(config_id_list, rows, i + 1,
                             Append(delible_configs, config_id_list[i]),
                             indelible_configs)

\* A partition that decides every position by the first row only.
get_delible_indelible_configs_first_row(config_id_list, rows) ==
    IF Len(rows) > 0 /\ rows[1] > 0
    THEN [delible_configs |-> <<>>, indelible_configs |-> config_id_list]
    ELSE [delible_configs |-> config_id_list, indelible_configs |-> <<>>]

get_delible_indelible_configs(config_id_list, rows) ==
    partition_from(config_id_list, rows, 1, <<>>, <<>>)

\* A callback that extends the lists of the dict it is given.
populate_extending(read_result, partition) ==
    [delible_configs |->
         read_result.delible_configs \o partition.delible_configs,
     indelible_configs |->
         read_result.indelible_configs \o partition.indelible_configs]

\* transaction_read_result['delible_configs'] = delible_configs and
\* transaction_read_result['indelible_configs'] = indelible_configs: the
\* dict after the two assignments.
populate(read_result, partition) ==
    [read_result EXCEPT !.delible_configs = partition.delible_configs,
                        !.indelible_configs = partition.indelible_configs]

\* keyset_keys = [[config_id] for config_id in delible_configs]; the model
\* keeps the one-column keys as the ids themselves.
keyset_keys_whole_request(config_id_list, delible_configs) == config_id_list

keyset_keys(config_id_list, delible_configs) == delible_configs

\* The mutations buffered by _delete_job_configs_transaction: one delete on
\* the JobConfigs table when there is something to delete, else nothing.
buffered_mutations(config_id_list, delible_configs) ==
    IF Len(delible_configs) > 0
    THEN <<[table |-> JOB_CONFIGS_TABLE,
            keys |-> keyset_keys(config_id_list, delible_configs)]>>
    ELSE <<>>

\* transaction.execute_sql: the counts are read inside the read-write
\* transaction, so the commit is validated against concurrent writes to the
\* rows read (a read through database.snapshot() would not be).
counts_read_in_snapshot == FALSE

counts_read_in_transaction == TRUE

(***************************************************************************)
(* State.                                                                  *)
(***************************************************************************)
VARIABLES
    jobConfigs,     \* ids of the rows of table JobConfigs
    jobRuns,        \* rows of table JobRuns
    tasks,          \* rows of table Tasks
    pc,             \* position of the delete request: ready / read / commit
    content,        \* request.json of the delete request
    rows,           \* result.rows of the last execute_sql of the request
    transaction_read_result,  \* the dict filled by the transaction callback
    mutations,      \* mutations buffered in the open transaction
    invalidated,    \* a concurrent commit wrote rows the open transaction read
    retried,        \* the callback was re-run at least once in this request
    commit_outcome, \* none / Aborted / ValueError / committed / GaxError
    returned,       \* what SpannerWrapper.delete_job_configs returned
    response,       \* HTTP response of the delete route
    call_args,      \* inputs of a function applied on its own
    call_result,    \* its result
    log_dir,        \* autoupdate: the directory logging.find_log_dir() returns
    files,          \* autoupdate: the agent source files on disk
    procs,          \* autoupdate: the agent processes of the container
    process,        \* autoupdate: main's handle of the agent process
    version,        \* autoupdate: main's version of the local agent
    agent_pc,       \* autoupdate: position in check_and_update_agent_if_needed
    frame,          \* autoupdate: the locals of the running call
    infra_statuses, \* infra_util: what the builders report about the project
    infra_request,  \* infra_util: the create / tear request and how it ended
    cloud,          \* infra_util: the resources the project holds
    creators,       \* infra_util: the create requests in flight
    clock,          \* create_infra: time.time()
    waiter          \* create_infra: the polling loop that is running

dbVars == <<jobConfigs, jobRuns, tasks>>
reqVars == <<pc, content, rows, transaction_read_result, mutations,
             invalidated, retried, commit_outcome, returned, response>>
callVars == <<call_args, call_result>>
agentVars == <<log_dir, files, procs, process, version, agent_pc, frame>>
infraVars == <<infra_statuses, infra_request, cloud, creators>>
waitVars == <<clock, waiter>>
otherVars == <<agentVars, infraVars, waitVars>>
vars == <<jobConfigs, jobRuns, tasks, pc, content, rows,
          transaction_read_result, mutations, invalidated, retried,
          commit_outcome, returned, response, call_args, call_result,
          log_dir, files, procs, process, version, agent_pc, frame,
          infra_statuses, infra_request, cloud, creators, clock, waiter>>

NoResponse == [code |-> "NONE", error |-> "", message |-> <<>>, body |-> <<>>]

EmptyResult == [delible_configs |-> <<>>, indelible_configs |-> <<>>]

NoReturn == [type |-> "NoReturn", value |-> EmptyResult]

InitDb ==
    /\ jobConfigs = {}
    /\ jobRuns = {}
    /\ tasks = {}

InitRequest ==
    /\ pc = "ready"
    /\ content = [kind |-> "list", items |-> <<>>, all_strings |-> TRUE]
    /\ rows = <<>>
    /\ transaction_read_result = EmptyResult
    /\ mutations = <<>>
    /\ invalidated = FALSE
    /\ retried = FALSE
    /\ commit_outcome = "none"
    /\ returned = NoReturn
    /\ response = NoResponse

(***************************************************************************)
(* Python values of the autoupdate script: None, strings, integers and     *)
(* subprocess.Popen handles.                                               *)
(***************************************************************************)
None == [type |-> "NoneType"]

Str(s) == [type |-> "str", value |-> s]

PyInt(n) == [type |-> "int", value |-> n]

Popen(pid) == [type |-> "Popen", pid |-> pid]

\* --stable_agent_url, and another update source an agent may name.
STABLE_AGENT_BINARY_ADDRESS ==
    "https://www.googleapis.com/storage/v1/b/cloud-ingest-pub/o/agent%2fcurrent%2fagent-linux_amd64.tar.gz"

CanaryUrl ==
    "https://www.googleapis.com/storage/v1/b/cloud-ingest-canary/o/test"

AgentVersions == {"v1", "v2"}

Pids == 1..MaxAgents

\* The directories logging.find_log_dir() may return: the default "/tmp/"
\* and a --log_dir given without a trailing separator.
LogDirs == {<<"/", "tmp", "/">>, <<"/", "var", "/", "log">>}

NoProcess == [born |-> FALSE, returncode |-> None]

\* The last answer of an update source and what agent_release_version made
\* of it; none before the first read of a call.
NoRead == [url |-> None, response |-> None,
           result |-> [raised |-> "none", value |-> None]]

\* The locals of check_and_update_agent_if_needed before its first line.
NoFrame ==
    [process |-> None, update_source |-> None, latest_prod_version |-> None,
     read |-> NoRead, downloads |-> <<>>, ended |-> <<>>,
     raised |-> "none"]

\* main() before the first iteration of its loop.
InitMain ==
    /\ files = [f \in {} |-> None]
    /\ procs = [pid \in Pids |-> NoProcess]
    /\ process = None
    /\ version = Str("")
    /\ agent_pc = "sleep"
    /\ frame = NoFrame

\* JSON and Python dictionaries.
Dict(items) == [type |-> "dict", items |-> items]

NoItems == [key \in {} |-> None]

(***************************************************************************)
(* infra_util.py: the statuses of the infrastructure of a project.         *)
(***************************************************************************)
\* The names of the members of ResourceStatus.
ResourceStatusNames ==
    {"RUNNING", "DEPLOYING", "DELETING", "FAILED", "NOT_FOUND", "UNKNOWN"}

\* The keys of _TOPICS_SUBSCRIPTIONS.
TOPICS_SUBSCRIPTIONS ==
    <<"list", "listProgress", "uploadGCS", "uploadGCSProgress",
      "loadBigQuery", "loadBigQueryProgress">>

ComponentKeys == {"spannerStatus", "dcpStatus", "cloudFunctionsStatus"}

StatusKeys == ComponentKeys \cup Range(TOPICS_SUBSCRIPTIONS)

\* The dictionary _infrastructure_status_from_bldrs builds from the status
\* of every component and topic.
infrastructure_status_from_bldrs(status) ==
    Dict([spannerStatus |-> Str(status["spannerStatus"]),
          pubsubStatus |->
              Dict([key \in Range(TOPICS_SUBSCRIPTIONS) |-> Str(status[key])]),
          dcpStatus |-> Str(status["dcpStatus"]),
          cloudFunctionsStatus |-> Str(status["cloudFunctionsStatus"])])

NoInfraRequest == [op |-> "none", raised |-> "none", calls |-> <<>>]

Creators == 1..MaxCreators

NoCreator == [pc |-> "none", raised |-> "none", made |-> <<>>]

InitCloudIdle ==
    /\ cloud = {}
    /\ creators = [c \in Creators |-> NoCreator]

InitInfraIdle ==
    /\ infra_statuses =
           infrastructure_status_from_bldrs([key \in StatusKeys |-> "NOT_FOUND"])
    /\ infra_request = NoInfraRequest
    /\ InitCloudIdle

NoWaiter == [loop |-> "none", pc |-> "none", start_time |-> 0,
             res |-> "none", force |-> FALSE, database_exists |-> TRUE,
             mode |-> "none"]

InitWaitIdle ==
    /\ clock = 0
    /\ waiter = NoWaiter

InitOther ==
    /\ log_dir = <<"/", "tmp", "/">>
    /\ InitMain
    /\ InitInfraIdle
    /\ InitWaitIdle

Init ==
    /\ InitDb
    /\ InitRequest
    /\ call_args = [none |-> TRUE]
    /\ call_result = [done |-> FALSE]
    /\ InitOther

(***************************************************************************)
(* Writers of the Tasks table invalidate an open delete transaction that   *)
(* has read the in-progress tasks of the same config.                      *)
(***************************************************************************)
Invalidates(config_id) ==
    pc = "commit" /\ config_id \in Range(content.items)

TaskWritten(config_id) ==
    invalidated' = (invalidated \/ Invalidates(config_id))

RunKey(r) == <<r.JobConfigId, r.JobRunId>>
TaskKey(t) == <<t.JobConfigId, t.JobRunId, t.TaskId>>

(***************************************************************************)
(* Job creation.                                                           *)
(***************************************************************************)
\* SpannerWrapper.create_job_config: one insert transaction.  Inserting an
\* existing key raises ALREADY_EXISTS and changes nothing.
create_job_config(config_id) ==
    /\ config_id \notin jobConfigs
    /\ jobConfigs' = jobConfigs \cup {config_id}
    /\ UNCHANGED <<jobRuns, tasks>>
    /\ UNCHANGED reqVars
    /\ UNCHANGED callVars
    /\ UNCHANGED otherVars

\* SpannerWrapper.create_job_run: one insert transaction on JobRuns.
create_job_run(config_id, run_id) ==
    /\ <<config_id, run_id>> \notin {RunKey(r) : r \in jobRuns}
    /\ jobRuns' = jobRuns \cup {[JobConfigId |-> config_id,
                                 JobRunId |-> run_id,
                                 Status |-> JOB_STATUS_IN_PROGRESS]}
    /\ UNCHANGED <<jobConfigs, tasks>>
    /\ UNCHANGED reqVars
    /\ UNCHANGED callVars
    /\ UNCHANGED otherVars

\* SpannerWrapper.create_job_run_first_list_task: one insert transaction on
\* Tasks.
create_job_run_first_list_task(config_id, run_id, task_id) ==
    /\ <<config_id, run_id, task_id>> \notin {TaskKey(t) : t \in tasks}
    /\ tasks' = tasks \cup {[JobConfigId |-> config_id,
                             JobRunId |-> run_id,
                             TaskId |-> task_id,
                             Status |-> TASK_STATUS_UNQUEUED,
                             TaskType |-> TASK_TYPE_LIST]}
    /\ TaskWritten(config_id)
    /\ UNCHANGED <<jobConfigs, jobRuns>>
    /\ UNCHANGED <<pc, content, rows, transaction_read_result, mutations,
                   retried, commit_outcome, returned, response>>
    /\ UNCHANGED callVars
    /\ UNCHANGED otherVars

\* job_utilities.create_job: config, run and list task in one batch; the
\* batch fails as a whole when one of the rows exists.
create_job(config_name, run_name) ==
    /\ config_name \notin jobConfigs
    /\ <<config_name, run_name>> \notin {RunKey(r) : r \in jobRuns}
    /\ <<config_name, run_name, "list">> \notin {TaskKey(t) : t \in tasks}
    /\ jobConfigs' = jobConfigs \cup {config_name}
    /\ jobRuns' = jobRuns \cup {[JobConfigId |-> config_name,
                                 JobRunId |-> run_name,
                                 Status |-> JOB_STATUS_IN_PROGRESS]}
    /\ tasks' = tasks \cup {[JobConfigId |-> config_name,
                             JobRunId |-> run_name,
                             TaskId |-> "list",
                             Status |-> TASK_STATUS_UNQUEUED,
                             TaskType |-> TASK_TYPE_LIST]}
    /\ TaskWritten(config_name)
    /\ UNCHANGED <<pc, content, rows, transaction_read_result, mutations,
                   retried, commit_outcome, returned, response>>
    /\ UNCHANGED callVars
    /\ UNCHANGED otherVars

(***************************************************************************)
(* The data control plane (outside this repository) moves tasks through    *)
(* UNQUEUED -> QUEUED -> FAILED / SUCCESS.                                 *)
(***************************************************************************)
DcpSetStatus(t, status) ==
    /\ tasks' = (tasks \ {t}) \cup {[t EXCEPT !.Status = status]}
    /\ TaskWritten(t.JobConfigId)
    /\ UNCHANGED <<jobConfigs, jobRuns>>
    /\ UNCHANGED <<pc, content, rows, transaction_read_result, mutations,
                   retried, commit_outcome, returned, response>>
    /\ UNCHANGED callVars
    /\ UNCHANGED otherVars

DcpQueueTask ==
    \E t \in tasks :
        /\ t.Status = TASK_STATUS_UNQUEUED
        /\ DcpSetStatus(t, TASK_STATUS_QUEUED)

DcpFinishTask ==
    \E t \in tasks :
        /\ t.Status = TASK_STATUS_QUEUED
        /\ \E status \in {TASK_STATUS_FAILED, TASK_STATUS_SUCCESS} :
               DcpSetStatus(t, status)

(***************************************************************************)
(* gaxerrordecorator.py and the methods of SpannerWrapper it decorates.    *)
(***************************************************************************)
GaxStatuses == {"PERMISSION_DENIED", "NOT_FOUND", "UNAUTHENTICATED",
                "ALREADY_EXISTS", "UNAVAILABLE", "INTERNAL",
                "DEADLINE_EXCEEDED"}

GaxError(status) == [type |-> "GaxError", cause |-> status]

\* The body of handle_errors: what leaves the decorator when the wrapped
\* function raises a GaxError whose cause carries `status`.
handle_common_gax_errors(status) ==
    IF status = "PERMISSION_DENIED" THEN [type |-> "Forbidden", cause |-> "none"]
    ELSE IF status = "NOT_FOUND" THEN [type |-> "NotFound", cause |-> "none"]
    ELSE IF status = "UNAUTHENTICATED"
         THEN [type |-> "Unauthorized", cause |-> "none"]
    ELSE IF status = "ALREADY_EXISTS" THEN [type |-> "Conflict", cause |-> "none"]
    ELSE GaxError(status)

\* The methods of SpannerWrapper that talk to Spanner, and the method in
\* which each makes its Spanner calls.
SpannerWrapperMethods ==
    {"__init__", "get_job_configs", "get_job_config", "create_job_config",
     "create_job_run", "create_job_run_first_list_task", "get_job_runs",
     "get_tasks_for_run", "get_tasks_of_status", "get_tasks_of_failure_type",
     "get_job_run", "delete_job_configs", "insert", "list_query",
     "single_result_query"}

SpannerCallSite(method) ==
    IF method \in {"create_job_config", "create_job_run",
                   "create_job_run_first_list_task"} THEN "insert"
    ELSE IF method \in {"get_job_configs", "get_job_runs", "get_tasks_for_run",
                        "get_tasks_of_status", "get_tasks_of_failure_type"}
         THEN "list_query"
    ELSE IF method \in {"get_job_config", "get_job_run"}
         THEN "single_result_query"
    ELSE method

\* The methods carrying @handle_common_gax_errors.
DecoratedMethods == {"__init__", "insert", "list_query", "single_result_query"}

\* The exception a caller of `method` sees when a Spanner call made by it
\* raises a GaxError with `status`.
ExceptionSeenByCaller(method, status) ==
    IF SpannerCallSite(method) \in DecoratedMethods
    THEN handle_common_gax_errors(status)
    ELSE GaxError(status)

(***************************************************************************)
(* main.py: the route /projects/<project_id>/jobconfigs/delete.            *)
(***************************************************************************)
FORMATTING_ERROR == "Request is incorrectly formatted."
DELETE_ERROR == "Error deleting jobs"
DELETE_MESSAGE_HEAD ==
    "Could not delete the following jobs because they have tasks in progress: "

\* _get_delete_job_configs_error: TRUE when the content is rejected.
get_delete_job_configs_error(request_json) ==
    \/ request_json.kind # "list"
    \/ Len(request_json.items) = 0
    \/ ~request_json.all_strings

\* The part of the route after spanner_wrapper.delete_job_configs returned.
delete_response_bad_request_only_if_nothing_deleted(result) ==
    IF Len(result.delible_configs) = 0
    THEN [code |-> "BAD_REQUEST", error |-> DELETE_ERROR,
          message |-> <<DELETE_MESSAGE_HEAD>>
                      \o Join(result.indelible_configs, ", ") \o <<".">>,
          body |-> <<>>]
    ELSE [code |-> "OK", error |-> "", message |-> <<>>,
          body |-> result.delible_configs]

delete_job_configs_response(result) ==
    IF Len(result.indelible_configs) > 0
    THEN [code |-> "BAD_REQUEST", error |-> DELETE_ERROR,
          message |-> <<DELETE_MESSAGE_HEAD>>
                      \o Join(result.indelible_configs, ", ") \o <<".">>,
          body |-> <<>>]
    ELSE [code |-> "OK", error |-> "", message |-> <<>>,
          body |-> result.delible_configs]

\* The Flask error handlers: the google.cloud exceptions answer with their
\* own code, anything else is an Internal Server Error.
exception_response(exc) ==
    [code |-> IF exc.type = "Forbidden" THEN "FORBIDDEN"
              ELSE IF exc.type = "NotFound" THEN "NOT_FOUND"
              ELSE IF exc.type = "Unauthorized" THEN "UNAUTHORIZED"
              ELSE IF exc.type = "Conflict" THEN "CONFLICT"
              ELSE "INTERNAL_SERVER_ERROR",
     error |-> exc.type, message |-> <<>>, body |-> <<>>]

\* What SpannerWrapper.delete_job_configs does with the way
\* run_in_transaction ended: it swallows ValueError and returns the dict.
delete_job_configs_value_error_propagates(commit_exception) ==
    IF commit_exception = "none" THEN "return" ELSE "raise"

delete_job_configs_ending(commit_exception) ==
    IF commit_exception \in {"none", "ValueError"} THEN "return" ELSE "raise"

\* The value SpannerWrapper.delete_job_configs returns.
delete_job_configs_return(result) == [type |-> "dict", value |-> result]

RequestContents ==
    {[kind |-> "list", items |-> l, all_strings |-> TRUE] :
        l \in SeqsUpTo(ConfigIds, MaxListLen)}
    \cup {[kind |-> "dict", items |-> <<>>, all_strings |-> TRUE],
          [kind |-> "list", items |-> <<>>, all_strings |-> FALSE]}

\* POST with `request_json`: the wrapper is built, the content validated and,
\* when valid, delete_job_configs opens its transaction.
DeleteRoute(request_json) ==
    /\ pc = "ready"
    /\ content' = request_json
    /\ rows' = <<>>
    /\ transaction_read_result' = EmptyResult
    /\ mutations' = <<>>
    /\ invalidated' = FALSE
    /\ retried' = FALSE
    /\ commit_outcome' = "none"
    /\ returned' = NoReturn
    /\ IF get_delete_job_configs_error(request_json)
       THEN /\ pc' = "ready"
            /\ response' = [code |-> "BAD_REQUEST", error |-> FORMATTING_ERROR,
                            message |-> <<>>, body |-> <<>>]
       ELSE /\ pc' = "read"
            /\ response' = NoResponse
    /\ UNCHANGED dbVars
    /\ UNCHANGED callVars
    /\ UNCHANGED otherVars

\* _delete_job_configs_transaction, one run of the callback: the counts are
\* read, the result dict is filled and the delete is buffered.
TxnRead ==
    /\ pc = "read"
    /\ LET result_rows == get_all_tasks_in_progress(tasks, content.items)
           partition == get_delible_indelible_configs(content.items,
                                                      result_rows)
       IN  /\ rows' = result_rows
           /\ transaction_read_result' =
                  populate(transaction_read_result, partition)
           /\ mutations' = buffered_mutations(content.items,
                                              partition.delible_configs)
    /\ invalidated' = FALSE
    /\ pc' = "commit"
    /\ UNCHANGED <<content, retried, commit_outcome, returned, response>>
    /\ UNCHANGED dbVars
    /\ UNCHANGED callVars
    /\ UNCHANGED otherVars

\* A Spanner call of the transaction raises a GaxError other than ABORTED:
\* run_in_transaction lets it through.
TxnFails ==
    /\ pc = "read"
    /\ \E status \in GaxStatuses :
           response' = exception_response(
                           ExceptionSeenByCaller("delete_job_configs", status))
    /\ commit_outcome' = "GaxError"
    /\ pc' = "ready"
    /\ UNCHANGED <<content, rows, transaction_read_result, mutations,
                   invalidated, retried, returned>>
    /\ UNCHANGED dbVars
    /\ UNCHANGED callVars
    /\ UNCHANGED otherVars

\* The commit is refused because a concurrent transaction wrote rows this
\* one read: run_in_transaction runs the callback again.
TxnAborted ==
    /\ pc = "commit"
    /\ counts_read_in_transaction /\ invalidated
    /\ pc' = "read"
    /\ mutations' = <<>>
    /\ invalidated' = FALSE
    /\ retried' = TRUE
    /\ commit_outcome' = "Aborted"
    /\ UNCHANGED <<content, rows, transaction_read_result, returned,
                   response>>
    /\ UNCHANGED dbVars
    /\ UNCHANGED callVars
    /\ UNCHANGED otherVars

\* How the route ends once run_in_transaction ended with `commit_exception`.
RouteEnds(commit_exception) ==
    /\ pc' = "ready"
    /\ IF delete_job_configs_ending(commit_exception) = "return"
       THEN /\ returned' = delete_job_configs_return(transaction_read_result)
            /\ response' = delete_job_configs_response(returned'.value)
       ELSE /\ returned' = NoReturn
            /\ response' = exception_response([type |-> commit_exception,
                                               cause |-> "none"])
    /\ UNCHANGED <<content, rows, transaction_read_result, mutations,
                   invalidated, retried>>
    /\ UNCHANGED callVars
    /\ UNCHANGED otherVars

\* Commit of a transaction without mutations: the client raises ValueError.
TxnNothingToCommit ==
    /\ pc = "commit"
    /\ ~(counts_read_in_transaction /\ invalidated)
    /\ mutations = <<>>
    /\ commit_outcome' = "ValueError"
    /\ RouteEnds("ValueError")
    /\ UNCHANGED dbVars

KeysDeleted(table) ==
    UNION {Range(mutations[i].keys) :
              i \in {j \in DOMAIN mutations : mutations[j].table = table}}

\* Commit of the buffered mutations.
TxnCommitted ==
    /\ pc = "commit"
    /\ ~(counts_read_in_transaction /\ invalidated)
    /\ mutations # <<>>
    /\ jobConfigs' = jobConfigs \ KeysDeleted(JOB_CONFIGS_TABLE)
    /\ jobRuns' = {r \in jobRuns : r.JobConfigId \notin KeysDeleted(JOB_RUNS_TABLE)}
    /\ tasks' = {t \in tasks : t.JobConfigId \notin KeysDeleted(TASKS_TABLE)}
    /\ commit_outcome' = "committed"
    /\ RouteEnds("none")

(***************************************************************************)
(* Specification of the tables and the delete request.                     *)
(***************************************************************************)
Next ==
    \/ \E c \in ConfigIds : create_job_config(c)
    \/ \E c \in ConfigIds, r \in RunIds : create_job_run(c, r)
    \/ \E c \in ConfigIds, r \in RunIds, t \in TaskIds :
           create_job_run_first_list_task(c, r, t)
    \/ \E c \in ConfigIds, r \in RunIds : create_job(c, r)
    \/ DcpQueueTask
    \/ DcpFinishTask
    \/ \E request_json \in RequestContents : DeleteRoute(request_json)
    \/ TxnRead
    \/ TxnFails
    \/ TxnAborted
    \/ TxnNothingToCommit
    \/ TxnCommitted

Spec == Init /\ [][Next]_vars

(***************************************************************************)
(* The partition function applied on its own to every list and every       *)
(* vector of counts within the bounds.                                     *)
(***************************************************************************)
PartitionInputs ==
    UNION {{[config_id_list |-> l, rows |-> r] :
               l \in [1..n -> ConfigIds], r \in [1..n -> 0..MaxCount]} :
           n \in 0..MaxPartitionLen}

InitPartition ==
    /\ InitDb
    /\ InitRequest
    /\ InitOther
    /\ call_args \in PartitionInputs
    /\ call_result = [done |-> FALSE, value |-> EmptyResult]

ApplyPartition ==
    /\ ~call_result.done
    /\ call_result' =
           [done |-> TRUE,
            value |-> get_delible_indelible_configs(call_args.config_id_list,
                                                    call_args.rows)]
    /\ UNCHANGED call_args
    /\ UNCHANGED dbVars
    /\ UNCHANGED reqVars
    /\ UNCHANGED otherVars

SpecPartition == InitPartition /\ [][ApplyPartition]_vars

(***************************************************************************)
(* A Spanner call failing with a GaxError inside each SpannerWrapper       *)
(* method, for every status within the bounds.                             *)
(***************************************************************************)
InitGax ==
    /\ InitDb
    /\ InitRequest
    /\ InitOther
    /\ call_args \in [method : SpannerWrapperMethods, status : GaxStatuses]
    /\ call_result = [done |-> FALSE, exc |-> [type |-> "none", cause |-> "none"]]

GaxCall ==
    /\ ~call_result.done
    /\ call_result' =
           [done |-> TRUE,
            exc |-> ExceptionSeenByCaller(call_args.method, call_args.status)]
    /\ UNCHANGED call_args
    /\ UNCHANGED dbVars
    /\ UNCHANGED reqVars
    /\ UNCHANGED otherVars

SpecGax == InitGax /\ [][GaxCall]_vars

(***************************************************************************)
(* autoupdate.py: the script that keeps one agent process running and      *)
(* replaces it when the update source names another version.               *)
(***************************************************************************)
\* 'agent_source_%d.txt' % process.pid
AgentSourceName(pid) == <<"agent_source_", ToString(pid), ".txt">>

\* The file a path names: its components, where separators split the path
\* and text written without a separator stays in one component.
RECURSIVE Components(_, _, _)
Components(path, current, done) ==
    IF path = <<>>
    THEN IF current = <<>> THEN done ELSE Append(done, current)
    ELSE IF Head(path) = "/"
         THEN Components(Tail(path), <<>>,
                         IF current = <<>> THEN done ELSE Append(done, current))
         ELSE Components(Tail(path), Append(current, Head(path)), done)

FileOf(path) == Components(path, <<>>, <<>>)

\* filename in delete_agent_source_file
delete_agent_source_file_name(pid) ==
    log_dir \o <<"/">> \o AgentSourceName(pid)

\* filename in update_url
update_url_filename(pid) == log_dir \o AgentSourceName(pid)

\* The files left once delete_agent_source_file(process) returned.
delete_agent_source_file(proc) ==
    IF proc = None
    THEN files
    ELSE LET filename == FileOf(delete_agent_source_file_name(proc.pid))
         IN  IF filename \in DOMAIN files
             THEN [f \in DOMAIN files \ {filename} |-> files[f]]
             ELSE files

update_url(proc) ==
    IF proc = None
    THEN Str(STABLE_AGENT_BINARY_ADDRESS)
    ELSE LET filename == FileOf(update_url_filename(proc.pid))
         IN  IF filename \in DOMAIN files
             THEN files[filename]
             ELSE Str(STABLE_AGENT_BINARY_ADDRESS)

\* process.poll()
poll(proc) == procs[proc.pid].returncode

is_process_alive_truthy(proc) ==
    IF proc = None
    THEN FALSE
    ELSE IF poll(proc) \in {None, PyInt(0)} THEN TRUE ELSE FALSE

is_process_alive(proc) ==
    IF proc = None
    THEN FALSE
    ELSE IF poll(proc) = None THEN TRUE ELSE FALSE

\* JSON values and the answers urllib.urlopen(url).read() may give.
JsonValues ==
    {[type |-> "list"],
     Dict(NoItems),
     Dict([metadata |-> Str("text")]),
     Dict([metadata |-> Dict(NoItems)])}
    \cup {Dict([metadata |-> Dict([AgentVersion |-> Str(v)])]) :
             v \in AgentVersions}

Responses ==
    {[urlopen |-> "IOError", status_code |-> 0, parses |-> FALSE,
      json |-> None]}
    \cup {[urlopen |-> "ok", status_code |-> 200, parses |-> FALSE,
           json |-> None]}
    \cup {[urlopen |-> "ok", status_code |-> 200, parses |-> TRUE,
           json |-> j] : j \in JsonValues \ {Dict(NoItems)}}
    \cup {[urlopen |-> "ok", status_code |-> 404, parses |-> TRUE,
           json |-> Dict(NoItems)]}

Raise(name) == [type |-> "exception", name |-> name]

\* value[key]
GetItem(value, key) ==
    IF value.type = "exception"
    THEN value
    ELSE IF value.type = "dict"
         THEN IF key \in DOMAIN value.items
              THEN value.items[key]
              ELSE Raise("KeyError")
         ELSE Raise("TypeError")

\* json.loads(response)['metadata']['AgentVersion']
AgentVersionOf(url_response) ==
    IF url_response.urlopen = "IOError"
    THEN Raise("IOError")
    ELSE IF ~url_response.parses
         THEN Raise("ValueError")
         ELSE GetItem(GetItem(url_response.json, "metadata"), "AgentVersion")

agent_release_version_key_error_propagates(url_response) ==
    LET found == AgentVersionOf(url_response)
    IN  IF found.type # "exception"
        THEN [raised |-> "none", value |-> found]
        ELSE IF found.name \in {"IOError", "ValueError"}
             THEN [raised |-> "none", value |-> None]
             ELSE [raised |-> found.name, value |-> None]

\* What agent_release_version returns or raises when the url answers
\* `url_response`.
agent_release_version(url_response) ==
    LET found == AgentVersionOf(url_response)
    IN  IF found.type # "exception"
        THEN [raised |-> "none", value |-> found]
        ELSE IF found.name \in {"IOError", "ValueError", "KeyError"}
             THEN [raised |-> "none", value |-> None]
             ELSE [raised |-> found.name, value |-> None]

\* What can go wrong, step by step, inside download_and_start_agent.
\* extract_agent_binary catches its tarfile.TarError itself; a corrupt
\* archive makes extractall raise zlib.error, which nothing below
\* check_and_update_agent_if_needed catches.
DownloadOutcomes ==
    [terminate : {"ok", "OSError"}, urlretrieve : {"ok", "IOError"},
     extract : {"ok", "zlib.error"}, Popen : {"ok", "OSError"}]

UnbornPids == {pid \in Pids : ~procs[pid].born}

NextPid == CHOOSE pid \in UnbornPids : \A other \in UnbornPids : pid <= other

\* process.terminate(); process.wait()
Terminated(table, pid) ==
    [table EXCEPT ![pid].returncode = PyInt(0 - 15)]

\* download_and_start_agent(process, url, args) when its steps end as
\* `outcome` says: the handle it returns and what it leaves behind.
download_and_start_agent(proc, url, outcome) ==
    LET alive == is_process_alive(proc)
        files_1 == IF alive THEN delete_agent_source_file(proc) ELSE files
        stopped == ~alive \/ outcome.terminate = "ok"
        procs_1 == IF alive /\ outcome.terminate = "ok"
                   THEN Terminated(procs, proc.pid)
                   ELSE procs
        started == /\ stopped
                   /\ outcome.urlretrieve = "ok"
                   /\ outcome.extract = "ok"
                   /\ outcome.Popen = "ok"
    IN  [files |-> files_1,
         procs |-> IF started
                   THEN [procs_1 EXCEPT ![NextPid] =
                            [born |-> TRUE, returncode |-> None]]
                   ELSE procs_1,
         process |-> IF started THEN Popen(NextPid) ELSE None,
         caught |-> IF ~stopped THEN "OSError"
                    ELSE IF outcome.urlretrieve # "ok" THEN "IOError"
                    ELSE IF outcome.extract # "ok" THEN "none"
                    ELSE IF outcome.Popen # "ok" THEN "OSError"
                    ELSE "none",
         raised |-> IF /\ stopped
                       /\ outcome.urlretrieve = "ok"
                       /\ outcome.extract # "ok"
                    THEN outcome.extract
                    ELSE "none"]

\* How a call of download_and_start_agent ended: "none" for a started
\* agent, else the exception it caught or let through.
HowItEnded(done) == IF done.raised # "none" THEN done.raised ELSE done.caught

needs_update_ignoring_none(latest_prod_version, local_version) ==
    latest_prod_version # local_version

\* The condition of the update branch of check_and_update_agent_if_needed.
needs_update(latest_prod_version, local_version) ==
    latest_prod_version # None /\ latest_prod_version # local_version

\* An agent process ends on its own.
AgentExits(pid, code) ==
    /\ procs[pid].born
    /\ procs[pid].returncode = None
    /\ procs' = [procs EXCEPT ![pid].returncode = PyInt(code)]
    /\ UNCHANGED <<log_dir, files, process, version, agent_pc, frame>>

\* A running agent names its update source in its agent source file.
AgentWritesSourceFile(pid) ==
    LET filename == FileOf(delete_agent_source_file_name(pid))
    IN  /\ procs[pid].born
        /\ procs[pid].returncode = None
        /\ filename \notin DOMAIN files
        /\ files' = [f \in DOMAIN files \cup {filename} |->
                        IF f = filename THEN Str(CanaryUrl) ELSE files[f]]
        /\ UNCHANGED <<log_dir, procs, process, version, agent_pc, frame>>

\* The exceptions of the model that are instances of Exception.
ExceptionClasses ==
    {"IOError", "OSError", "ValueError", "KeyError", "TypeError",
     "zlib.error"}

ExceptReturn_keeping_latest_version(locals, name) ==
    [locals EXCEPT !.raised = name]

\* except Exception: return process, local_version
ExceptReturn(locals, name) ==
    [locals EXCEPT !.raised = name, !.latest_prod_version = version]

\* Where check_and_update_agent_if_needed goes on an exception `name`: to
\* the return of its except clause, or out of main's loop.
except_Exception(name) ==
    IF name \in ExceptionClasses THEN "return" ELSE "crashed"

\* check_and_update_agent_if_needed up to the version of the update source.
CheckVersion(url_response) ==
    /\ agent_pc = "sleep"
    /\ LET update_source == update_url(process)
           result == agent_release_version(url_response)
           locals == [NoFrame EXCEPT
                         !.process = process,
                         !.update_source = update_source,
                         !.latest_prod_version = result.value,
                         !.read = [url |-> update_source,
                                   response |-> url_response,
                                   result |-> result]]
       IN  IF result.raised # "none"
           THEN /\ frame' = ExceptReturn(locals, result.raised)
                /\ agent_pc' = except_Exception(result.raised)
           ELSE /\ frame' = locals
                /\ agent_pc' = "versioned"
    /\ UNCHANGED <<log_dir, files, procs, process, version>>

\* The update branch: download and start the agent of the update source
\* when its version is another one.
UpdateIfNeeded(outcome) ==
    /\ agent_pc = "versioned"
    /\ IF needs_update(frame.latest_prod_version, version)
       THEN LET done == download_and_start_agent(
                            frame.process, frame.update_source.value, outcome)
                locals == [frame EXCEPT
                              !.downloads = Append(@, frame.update_source),
                              !.ended = Append(@, HowItEnded(done)),
                              !.read = NoRead]
            IN  /\ outcome.Popen = "ok" => UnbornPids # {}
                /\ files' = done.files
                /\ procs' = done.procs
                /\ IF done.raised # "none"
                   THEN /\ frame' = ExceptReturn(locals, done.raised)
                        /\ agent_pc' = except_Exception(done.raised)
                   ELSE /\ frame' = [locals EXCEPT !.process = done.process]
                        /\ agent_pc' = "updated"
       ELSE /\ frame' = [frame EXCEPT !.latest_prod_version = version,
                                      !.read = NoRead]
            /\ agent_pc' = "updated"
            /\ UNCHANGED <<files, procs>>
    /\ UNCHANGED <<log_dir, process, version>>

\* The fallback: when the agent is not running, download and start the
\* agent of the stable URL.
EnsureAlive(url_response, outcome) ==
    /\ agent_pc = "updated"
    /\ IF ~is_process_alive(frame.process)
       THEN LET update_source == Str(STABLE_AGENT_BINARY_ADDRESS)
                result == agent_release_version(url_response)
                locals == [frame EXCEPT
                              !.update_source = update_source,
                              !.latest_prod_version = result.value,
                              !.read = [url |-> update_source,
                                        response |-> url_response,
                                        result |-> result]]
                done == download_and_start_agent(
                            frame.process, update_source.value, outcome)
                started == [locals EXCEPT
                               !.downloads = Append(@, update_source),
                               !.ended = Append(@, HowItEnded(done))]
            IN  IF result.raised # "none"
                THEN /\ frame' = ExceptReturn(locals, result.raised)
                     /\ agent_pc' = except_Exception(result.raised)
                     /\ UNCHANGED <<files, procs>>
                ELSE /\ outcome.Popen = "ok" => UnbornPids # {}
                     /\ files' = done.files
                     /\ procs' = done.procs
                     /\ IF done.raised # "none"
                        THEN /\ frame' = ExceptReturn(started, done.raised)
                             /\ agent_pc' = except_Exception(done.raised)
                        ELSE /\ frame' = [started EXCEPT
                                             !.process = done.process]
                             /\ agent_pc' = "return"
       ELSE /\ frame' = frame
            /\ agent_pc' = "return"
            /\ UNCHANGED <<files, procs>>
    /\ UNCHANGED <<log_dir, process, version>>

\* process, version = check_and_update_agent_if_needed(...); time.sleep(...)
Return ==
    /\ agent_pc = "return"
    /\ agent_pc' = "sleep"
    /\ process' = frame.process
    /\ version' = frame.latest_prod_version
    /\ frame' = NoFrame
    /\ UNCHANGED <<log_dir, files, procs>>

NextAgent ==
    /\ \/ \E pid \in Pids, code \in {0, 1} : AgentExits(pid, code)
       \/ \E pid \in Pids : AgentWritesSourceFile(pid)
       \/ \E url_response \in Responses : CheckVersion(url_response)
       \/ \E outcome \in DownloadOutcomes : UpdateIfNeeded(outcome)
       \/ \E url_response \in Responses, outcome \in DownloadOutcomes :
              EnsureAlive(url_response, outcome)
       \/ Return
    /\ UNCHANGED <<dbVars, reqVars, callVars, infraVars, waitVars>>

InitAgent ==
    /\ InitDb
    /\ InitRequest
    /\ call_args = [none |-> TRUE]
    /\ call_result = [done |-> FALSE]
    /\ log_dir \in LogDirs
    /\ InitMain
    /\ InitInfraIdle
    /\ InitWaitIdle

SpecAgent == InitAgent /\ [][NextAgent]_vars

(***************************************************************************)
(* util.py and infra_util.py: creating and tearing the infrastructure of   *)
(* a project after a check of the status of every component.               *)
(***************************************************************************)
dict_values_are_recursively_top_level(dictionary, desired_value) ==
    \A key \in DOMAIN dictionary.items :
        LET value == dictionary.items[key]
        IN  IF value.type = "dict" THEN TRUE ELSE value = desired_value

RECURSIVE dict_values_are_recursively(_, _)
dict_values_are_recursively(dictionary, desired_value) ==
    \A key \in DOMAIN dictionary.items :
        LET value == dictionary.items[key]
        IN  IF value.type = "dict"
            THEN dict_values_are_recursively(value, desired_value)
            ELSE value = desired_value

RECURSIVE dict_has_values_recursively(_, _)
dict_has_values_recursively(dictionary, desired_values) ==
    \E key \in DOMAIN dictionary.items :
        LET value == dictionary.items[key]
        IN  IF value.type = "dict"
            THEN dict_has_values_recursively(value, desired_values)
            ELSE value \in desired_values

tear_refused_statuses_deploying_only == {Str("DEPLOYING")}

\* set([ResourceStatus.DEPLOYING.name, ResourceStatus.DELETING.name])
tear_refused_statuses == {Str("DEPLOYING"), Str("DELETING")}

BuilderCall(builder, method, arg) ==
    [builder |-> builder, method |-> method, arg |-> arg]

\* The builder calls of create_infrastructure after its check, in order.
create_infrastructure_calls ==
    <<BuilderCall("spanner_bldr", "create_instance", "SPANNER_INSTANCE"),
      BuilderCall("spanner_bldr", "create_database", "SPANNER_DATABASE")>>
    \o [i \in DOMAIN TOPICS_SUBSCRIPTIONS |->
           BuilderCall("pubsub_bldr", "create_topic_and_subscriptions",
                       TOPICS_SUBSCRIPTIONS[i])]
    \o <<BuilderCall("functions_bldr", "create_function_async",
                     "LOAD_BQ_CLOUD_FN_NAME"),
         BuilderCall("compute_bldr", "create_instance_async",
                     "DCP_INSTANCE_NAME")>>

\* The builder calls of tear_infrastructure after its check, in order.
tear_infrastructure_calls ==
    <<BuilderCall("spanner_bldr", "delete_instance", "SPANNER_INSTANCE")>>
    \o [i \in DOMAIN TOPICS_SUBSCRIPTIONS |->
           BuilderCall("pubsub_bldr", "delete_topic_and_subscriptions",
                       TOPICS_SUBSCRIPTIONS[i])]
    \o <<BuilderCall("functions_bldr", "delete_function_async",
                     "LOAD_BQ_CLOUD_FN_NAME"),
         BuilderCall("compute_bldr", "delete_instance_async",
                     "DCP_INSTANCE_NAME")>>

\* The calls made when the call at position `raises_at` raises (0: none
\* does), and how the request ends then.
CallsMade(calls, raises_at) ==
    [op |-> "none",
     raised |-> IF raises_at = 0 THEN "none" ELSE "Exception",
     calls |-> IF raises_at = 0 THEN calls ELSE SubSeq(calls, 1, raises_at)]

create_infrastructure(raises_at) ==
    /\ infra_request.op = "none"
    /\ IF ~dict_values_are_recursively(infra_statuses, Str("NOT_FOUND"))
       THEN /\ raises_at = 0
            /\ infra_request' = [op |-> "create_infrastructure",
                                 raised |-> "Conflict", calls |-> <<>>]
       ELSE infra_request' =
                [CallsMade(create_infrastructure_calls, raises_at)
                     EXCEPT !.op = "create_infrastructure"]
    /\ UNCHANGED <<infra_statuses, cloud, creators>>

tear_infrastructure(raises_at) ==
    /\ infra_request.op = "none"
    /\ IF dict_has_values_recursively(infra_statuses, tear_refused_statuses)
       THEN /\ raises_at = 0
            /\ infra_request' = [op |-> "tear_infrastructure",
                                 raised |-> "PreconditionFailed",
                                 calls |-> <<>>]
       ELSE infra_request' =
                [CallsMade(tear_infrastructure_calls, raises_at)
                     EXCEPT !.op = "tear_infrastructure"]
    /\ UNCHANGED <<infra_statuses, cloud, creators>>

\* Every status dictionary in which at most MaxDeviants statuses differ
\* from the status the others share.
InfraStatusInputs ==
    UNION {UNION {{infrastructure_status_from_bldrs(
                       [key \in StatusKeys |->
                           IF key \in deviants THEN status[key] ELSE base]) :
                   status \in [deviants -> ResourceStatusNames]} :
               deviants \in {d \in SUBSET StatusKeys :
                                Cardinality(d) <= MaxDeviants}} :
           base \in ResourceStatusNames}

InitInfra ==
    /\ InitDb
    /\ InitRequest
    /\ call_args = [none |-> TRUE]
    /\ call_result = [done |-> FALSE]
    /\ log_dir = <<"/", "tmp", "/">>
    /\ InitMain
    /\ InitWaitIdle
    /\ infra_statuses \in InfraStatusInputs
    /\ infra_request = NoInfraRequest
    /\ InitCloudIdle

NextInfra ==
    /\ \/ \E raises_at \in 0..Len(create_infrastructure_calls) :
              create_infrastructure(raises_at)
       \/ \E raises_at \in 0..Len(tear_infrastructure_calls) :
              tear_infrastructure(raises_at)
    /\ UNCHANGED <<dbVars, reqVars, callVars, agentVars, waitVars>>

SpecInfra == InitInfra /\ [][NextInfra]_vars

(***************************************************************************)
(* create_infrastructure call by call, for several requests on one         *)
(* project at a time.                                                      *)
(***************************************************************************)
\* PubSubBuilder.create_topic_and_subscriptions: the topic, then each of its
\* subscriptions (one per topic in _TOPICS_SUBSCRIPTIONS).
create_topic_and_subscriptions(key) ==
    <<BuilderCall("pubsub_bldr", "create_topic", key),
      BuilderCall("pubsub_bldr", "create_subscription", key)>>

RECURSIVE client_calls(_)
client_calls(calls) ==
    IF calls = <<>>
    THEN <<>>
    ELSE (IF Head(calls).method = "create_topic_and_subscriptions"
          THEN create_topic_and_subscriptions(Head(calls).arg)
          ELSE <<Head(calls)>>) \o client_calls(Tail(calls))

create_infrastructure_steps_function_first ==
    client_calls(<<create_infrastructure_calls[9]>>
                 \o SubSeq(create_infrastructure_calls, 1, 8)
                 \o <<create_infrastructure_calls[10]>>)

\* The calls create_infrastructure makes on the services after its check.
create_infrastructure_steps == client_calls(create_infrastructure_calls)

\* SpannerBuilder.database_status
database_status ==
    IF BuilderCall("spanner_bldr", "create_database", "SPANNER_DATABASE")
           \in cloud
    THEN "RUNNING"
    ELSE "NOT_FOUND"

\* PubSubBuilder.topic_and_subscriptions_status
topic_and_subscriptions_status(key) ==
    IF Range(create_topic_and_subscriptions(key)) \subseteq cloud
    THEN "RUNNING"
    ELSE "NOT_FOUND"

\* CloudFunctionsBuilder.function_status
function_status ==
    IF \E call \in cloud : call.method = "create_function_async"
    THEN "DEPLOYING"
    ELSE "NOT_FOUND"

\* ComputeBuilder.instance_status
instance_status ==
    IF \E call \in cloud : call.method = "create_instance_async"
    THEN "DEPLOYING"
    ELSE "NOT_FOUND"

\* _infrastructure_status_from_bldrs on the resources the project holds.
infrastructure_status_of_cloud ==
    infrastructure_status_from_bldrs(
        [key \in StatusKeys |->
            IF key = "spannerStatus" THEN database_status
            ELSE IF key = "dcpStatus" THEN instance_status
            ELSE IF key = "cloudFunctionsStatus" THEN function_status
            ELSE topic_and_subscriptions_status(key)])

\* A POST of create-infrastructure arrives.
create_infrastructure_request(c) ==
    /\ creators[c].pc = "none"
    /\ creators' = [creators EXCEPT ![c].pc = "check"]
    /\ UNCHANGED <<infra_statuses, infra_request, cloud>>

\* The check of create_infrastructure, lines 159-166.
check_all_not_found(c) ==
    /\ creators[c].pc = "check"
    /\ infra_statuses' = infrastructure_status_of_cloud
    /\ creators' =
           [creators EXCEPT
               ![c] = IF dict_values_are_recursively(infra_statuses',
                                                     Str("NOT_FOUND"))
                      THEN [@ EXCEPT !.pc = "create"]
                      ELSE [@ EXCEPT !.pc = "done", !.raised = "Conflict"]]
    /\ UNCHANGED <<infra_request, cloud>>

\* The next call of lines 168-193; it raises when the service fails or
\* holds the resource already, and then ends the request.
create_next(c, fails) ==
    /\ creators[c].pc = "create"
    /\ LET call == create_infrastructure_steps[Len(creators[c].made) + 1]
           made == Append(creators[c].made, call)
       IN  IF fails \/ call \in cloud
           THEN /\ creators' = [creators EXCEPT
                                   ![c] = [pc |-> "done",
                                           raised |-> "Exception",
                                           made |-> made]]
                /\ UNCHANGED cloud
           ELSE /\ creators' =
                       [creators EXCEPT
                           ![c] = [pc |-> IF made = create_infrastructure_steps
                                          THEN "done"
                                          ELSE "create",
                                   raised |-> "none",
                                   made |-> made]]
                /\ cloud' = cloud \cup {call}
    /\ UNCHANGED <<infra_statuses, infra_request>>

NextCreate ==
    /\ \E c \in Creators :
           \/ create_infrastructure_request(c)
           \/ check_all_not_found(c)
           \/ \E fails \in BOOLEAN : create_next(c, fails)
    /\ UNCHANGED <<dbVars, reqVars, callVars, agentVars, waitVars>>

InitCreate ==
    /\ InitDb
    /\ InitRequest
    /\ call_args = [none |-> TRUE]
    /\ call_result = [done |-> FALSE]
    /\ InitOther

SpecCreate == InitCreate /\ [][NextCreate]_vars

(***************************************************************************)
(* The polling loops of create_infra: the wait for a Compute operation,    *)
(* for a cloud function to be deployed or deleted, and the wait of main    *)
(* for the jobs to complete before the tear down.                          *)
(***************************************************************************)
MaxClock == timeout_seconds + MaxSleep

ApiLoops == {"_wait_operation_to_complete", "create_function",
             "delete_function"}

within_timeout_never_expires(now, start_time, timeout) == TRUE

\* time.time() - start_time < timeout_seconds
within_timeout(now, start_time, timeout) == now - start_time < timeout

Ends(how, why) == [waiter EXCEPT !.pc = how, !.res = why]

\* time.sleep(1)
Sleeps(slept) ==
    /\ clock + slept <= MaxClock
    /\ clock' = clock + slept

\* One turn of the loop of _wait_operation_to_complete; `result` is what
\* zoneOperations().get() answers.
wait_operation_to_complete(result, slept) ==
    /\ waiter.loop = "_wait_operation_to_complete"
    /\ waiter.pc = "polling"
    /\ IF within_timeout(clock, waiter.start_time, timeout_seconds)
       THEN IF result.status = "DONE"
            THEN /\ waiter' = IF result.error
                              THEN Ends("raised", "error")
                              ELSE Ends("returned", "DONE")
                 /\ UNCHANGED clock
            ELSE /\ Sleeps(slept)
                 /\ UNCHANGED waiter
       ELSE /\ waiter' = Ends("raised", "timed out")
            /\ UNCHANGED clock

\* One turn of the loop of create_function; `res` is the answer to the get
\* of the function.
create_function_wait(res, slept) ==
    /\ waiter.loop = "create_function"
    /\ waiter.pc = "polling"
    /\ IF within_timeout(clock, waiter.start_time, timeout_seconds)
       THEN /\ Sleeps(slept)
            /\ waiter' = IF res = "READY"
                         THEN Ends("returned", "READY")
                         ELSE IF res = "FAILED"
                              THEN Ends("raised", "FAILED")
                              ELSE waiter
       ELSE /\ waiter' = Ends("raised", "timed out")
            /\ UNCHANGED clock

\* One turn of the loop of delete_function, and what follows the loop.
delete_function_wait(res, slept) ==
    /\ waiter.loop = "delete_function"
    /\ waiter.pc = "polling"
    /\ IF /\ waiter.res # "NOT_FOUND"
          /\ within_timeout(clock, waiter.start_time, timeout_seconds)
       THEN /\ Sleeps(slept)
            /\ waiter' = [waiter EXCEPT !.res = res]
       ELSE /\ waiter' = IF waiter.res # "NOT_FOUND"
                         THEN Ends("raised", "timed out")
                         ELSE Ends("returned", "NOT_FOUND")
            /\ UNCHANGED clock

\* if 'TearDown' in args.mode
main_mode ==
    /\ waiter.loop = "main"
    /\ waiter.pc = "main"
    /\ waiter' = IF waiter.mode \in {"TearDown", "CreateThenTearDown"}
                 THEN [waiter EXCEPT !.pc = "polling"]
                 ELSE [waiter EXCEPT !.pc = "exited"]
    /\ UNCHANGED clock

jobs_have_completed_ignoring_tasks == TRUE

\* job_utilities.jobs_have_completed(database)
jobs_have_completed ==
    IF ~waiter.database_exists
    THEN TRUE
    ELSE Cardinality({t \in tasks :
                         /\ t.Status # TASK_STATUS_FAILED
                         /\ t.Status # TASK_STATUS_SUCCESS}) = 0

\* The test of the loop of main before the tear down; the loop is left for
\* the call of tear_down_infrastructure.
wait_for_jobs_to_complete ==
    /\ waiter.loop = "main"
    /\ waiter.pc = "polling"
    /\ waiter' = IF ~waiter.force /\ ~jobs_have_completed
                 THEN [waiter EXCEPT !.pc = "sleeping"]
                 ELSE [waiter EXCEPT !.pc = "leaving"]
    /\ UNCHANGED clock

\* The call of tear_down_infrastructure after the loop.
tear_down_infrastructure ==
    /\ waiter.loop = "main"
    /\ waiter.pc = "leaving"
    /\ waiter' = Ends("returned", "tear_down_infrastructure")
    /\ UNCHANGED clock

\* The body of the loop of main: print and time.sleep(1).
sleep_before_next_check ==
    /\ waiter.loop = "main"
    /\ waiter.pc = "sleeping"
    /\ waiter' = [waiter EXCEPT !.pc = "polling"]
    /\ UNCHANGED clock

OperationResults ==
    [status : {"PENDING", "RUNNING", "DONE"}, error : BOOLEAN]

FunctionAnswers == {"error", "DEPLOYING", "READY", "FAILED"}

DeleteAnswers == {"OK", "NOT_FOUND"}

WaitFrame == UNCHANGED <<dbVars, reqVars, callVars, agentVars, infraVars>>

ApiWaitStep ==
    /\ \/ \E result \in OperationResults, slept \in 1..MaxSleep :
              wait_operation_to_complete(result, slept)
       \/ \E res \in FunctionAnswers, slept \in 1..MaxSleep :
              create_function_wait(res, slept)
       \/ \E res \in DeleteAnswers, slept \in 1..MaxSleep :
              delete_function_wait(res, slept)
    /\ WaitFrame

MainWaitStep ==
    /\ \/ main_mode
       \/ wait_for_jobs_to_complete
       \/ sleep_before_next_check
       \/ tear_down_infrastructure
    /\ WaitFrame

NextWait ==
    \/ ApiWaitStep
    \/ MainWaitStep
    \/ /\ waiter.loop = "main"
       /\ \/ \E c \in ConfigIds, r \in RunIds : create_job(c, r)
          \/ DcpQueueTask
          \/ DcpFinishTask

InitWait ==
    /\ InitDb
    /\ InitRequest
    /\ call_args = [none |-> TRUE]
    /\ call_result = [done |-> FALSE]
    /\ log_dir = <<"/", "tmp", "/">>
    /\ InitMain
    /\ InitInfraIdle
    /\ clock = 0
    /\ waiter \in
           {[loop |-> loop, pc |-> "polling", start_time |-> 0,
             res |-> IF loop = "delete_function" THEN "OK" ELSE "none",
             force |-> FALSE, database_exists |-> TRUE,
             mode |-> "none"] : loop \in ApiLoops}
           \cup {[loop |-> "main", pc |-> "main", start_time |-> 0,
                  res |-> "none", force |-> force,
                  database_exists |-> exists, mode |-> mode] :
                    force \in BOOLEAN, exists \in BOOLEAN,
                    mode \in {"Create", "TearDown", "CreateThenTearDown"}}

SpecWait == InitWait /\ [][NextWait]_vars

\* A loop that is running takes its next turn.
SpecWaitFair ==
    /\ SpecWait
    /\ WF_vars(ApiWaitStep)
    /\ WF_vars(MainWaitStep)

(***************************************************************************)
(* The read queries of SpannerWrapper over JobRuns and Tasks, applied to a *)
(* table of their own.                                                     *)
(***************************************************************************)
\* bool(value) of a value that is None or an int.
Truthy(value) == value # None /\ value # PyInt(0)

\* The orders in which ORDER BY column DESC may deliver `table`: rows of
\* equal value come in any order.
OrderByDesc(table, column) ==
    {s \in [1..Cardinality(table) -> table] :
        /\ \A i, j \in DOMAIN s : i # j => s[i] # s[j]
        /\ \A i, j \in DOMAIN s : i < j => s[i][column] >= s[j][column]}

\* LIMIT n
Limit(s, n) == SubSeq(s, 1, IF n < Len(s) THEN n ELSE Len(s))

\* SpannerWrapper.JOB_CREATION_TIME
JOB_CREATION_TIME == "JobCreationTime"

\* SpannerWrapper.get_job_runs: the results the query may deliver.
get_job_runs(table, max_num_runs, created_before) ==
    IF max_num_runs <= 0 \/ max_num_runs > ROW_CAP
    THEN {[raised |-> "ValueError", value |-> <<>>]}
    ELSE LET selected ==
                 IF Truthy(created_before)
                 THEN {row \in table :
                          row.JobCreationTime < created_before.value}
                 ELSE table
         IN  {[raised |-> "none", value |-> Limit(s, max_num_runs)] :
                 s \in OrderByDesc(selected, JOB_CREATION_TIME)}

PageSizes == (0..MaxPageSize) \cup {ROW_CAP + 1}

\* The JobRuns tables of up to MaxJobRuns rows; creation times may repeat.
JobRunsTables ==
    {{[JobConfigId |-> "a", JobRunId |-> i, JobCreationTime |-> time[i]] :
         i \in 1..n} :
       n \in 0..MaxJobRuns, time \in [1..MaxJobRuns -> 1..MaxTime]}

InitPaging ==
    /\ InitDb
    /\ InitRequest
    /\ InitOther
    /\ call_args \in [op : {"get_job_runs"},
                      table : JobRunsTables,
                      max_num_runs : PageSizes,
                      created_before : {None}]
    /\ call_result = [done |-> FALSE, raised |-> "none", pages |-> <<>>]

\* One call of get_job_runs by a client that pages: the first call without
\* created_before, each later one with the creation time of the last run of
\* the page before; an empty page ends the paging.
get_next_page ==
    /\ ~call_result.done
    /\ \E out \in get_job_runs(call_args.table, call_args.max_num_runs,
                               call_args.created_before) :
           IF out.raised # "none" \/ out.value = <<>>
           THEN /\ call_result' = [call_result EXCEPT !.done = TRUE,
                                                      !.raised = out.raised]
                /\ UNCHANGED call_args
           ELSE /\ call_result' = [call_result EXCEPT
                                       !.pages = Append(@, out.value)]
                /\ call_args' =
                       [call_args EXCEPT
                           !.created_before =
                               PyInt(out.value[Len(out.value)].JobCreationTime)]
    /\ UNCHANGED <<dbVars, reqVars, otherVars>>

SpecPaging == InitPaging /\ [][get_next_page]_vars

\* SpannerWrapper.LAST_MODIFICATION_TIME
LAST_MODIFICATION_TIME == "LastModificationTime"

\* _check_max_num_tasks_in_range
check_max_num_tasks_in_range(max_num_tasks) ==
    IF max_num_tasks <= 0 \/ max_num_tasks > ROW_CAP
    THEN "BadRequest"
    ELSE "none"

\* SpannerWrapper.get_tasks_for_run: the results the query may deliver.
get_tasks_for_run(table, config_id, run_id, max_num_tasks, task_type, last_modified) ==
    IF check_max_num_tasks_in_range(max_num_tasks) # "none"
    THEN {[raised |-> "BadRequest", value |-> <<>>]}
    ELSE IF task_type # None /\ task_type.value \notin TaskTypeValues
    THEN {[raised |-> "BadRequest", value |-> <<>>]}
    ELSE LET selected ==
                 {row \in table :
                    /\ row.JobConfigId = config_id
                    /\ row.JobRunId = run_id
                    /\ Truthy(last_modified) =>
                           row.LastModificationTime < last_modified.value
                    /\ Truthy(task_type) => row.TaskType = task_type.value}
         IN  {[raised |-> "none", value |-> Limit(s, max_num_tasks)] :
                 s \in OrderByDesc(selected, LAST_MODIFICATION_TIME)}

TaskRows == [JobConfigId : {"a"}, JobRunId : {"r1", "r2"},
             TaskType : TaskTypeValues,
             LastModificationTime : 1..MaxTime]

\* The Tasks tables of up to MaxTasks rows.
TasksTables ==
    {{[JobConfigId |-> row[i].JobConfigId, JobRunId |-> row[i].JobRunId,
       TaskId |-> i, TaskType |-> row[i].TaskType,
       LastModificationTime |-> row[i].LastModificationTime] : i \in 1..n} :
       n \in 0..MaxTasks, row \in [1..MaxTasks -> TaskRows]}

TaskTypeInputs ==
    {None} \cup {PyInt(t) : t \in TaskTypeValues \cup {4}}

InitTasksQuery ==
    /\ InitDb
    /\ InitRequest
    /\ InitOther
    /\ call_args \in [op : {"get_tasks_for_run"},
                      table : TasksTables,
                      config_id : {"a"},
                      run_id : {"r1"},
                      max_num_tasks : PageSizes,
                      task_type : TaskTypeInputs,
                      last_modified : {None, PyInt(MaxTime)}]
    /\ call_result = [done |-> FALSE, raised |-> "none", value |-> <<>>]

get_tasks_for_run_call ==
    /\ ~call_result.done
    /\ \E out \in get_tasks_for_run(call_args.table, call_args.config_id,
                                    call_args.run_id, call_args.max_num_tasks,
                                    call_args.task_type,
                                    call_args.last_modified) :
           call_result' = [done |-> TRUE, raised |-> out.raised,
                           value |-> out.value]
    /\ UNCHANGED call_args
    /\ UNCHANGED <<dbVars, reqVars, otherVars>>

SpecTasksQuery == InitTasksQuery /\ [][get_tasks_for_run_call]_vars

(***************************************************************************)
(* PubSubBuilder.delete_topic_and_subscriptions against a Pub/Sub service  *)
(* that another tear down may be emptying at the same time.                *)
(***************************************************************************)
Subscriptions == {"sub" \o ToString(i) : i \in 1..MaxSubscriptions}

\* Statuses a Pub/Sub call may fail with whatever the state of the topic.
ServiceErrors == {"UNAUTHENTICATED", "UNAVAILABLE"}

DeleteSubscriptionCall(sub) == [method |-> "delete_subscription", arg |-> sub]

DeleteTopicCall == [method |-> "delete_topic", arg |-> "mytopic"]

\* The orders in which list_topic_subscriptions may deliver `subs`.
Listings(subs) ==
    {s \in [1..Cardinality(subs) -> subs] :
        \A i, j \in DOMAIN s : i # j => s[i] # s[j]}

\* except GaxError as err, lines 118-122.
except_GaxError(status) ==
    IF status # "NOT_FOUND"
    THEN [call_result EXCEPT !.pc = "raised", !.raised = GaxError(status)]
    ELSE [call_result EXCEPT !.pc = "returned"]

\* self.pub_client.list_topic_subscriptions(full_topic_name)
list_topic_subscriptions(error) ==
    /\ call_args.op = "delete_topic_and_subscriptions"
    /\ call_result.pc = "list"
    /\ IF error # "none"
       THEN call_result' = except_GaxError(error)
       ELSE IF ~call_args.topic_exists
       THEN call_result' = except_GaxError("NOT_FOUND")
       ELSE \E listing \in Listings(call_args.subscriptions) :
                call_result' = [call_result EXCEPT !.pc = "subs",
                                                   !.listed = TRUE,
                                                   !.listing = listing,
                                                   !.todo = listing]
    /\ UNCHANGED call_args

\* self.sub_client.delete_subscription(sub), one turn of the for loop.
delete_subscription(error) ==
    /\ call_args.op = "delete_topic_and_subscriptions"
    /\ call_result.pc = "subs"
    /\ call_result.todo # <<>>
    /\ LET sub == Head(call_result.todo)
       IN  IF error # "none"
           THEN /\ call_result' = except_GaxError(error)
                /\ UNCHANGED call_args
           ELSE IF sub \notin call_args.subscriptions
           THEN /\ call_result' = except_GaxError("NOT_FOUND")
                /\ UNCHANGED call_args
           ELSE /\ call_result' =
                       [call_result EXCEPT
                           !.todo = Tail(@),
                           !.calls = Append(@, DeleteSubscriptionCall(sub))]
                /\ call_args' = [call_args EXCEPT !.subscriptions = @ \ {sub}]

\* self.pub_client.delete_topic(full_topic_name), after the try statement.
delete_topic(error) ==
    /\ call_args.op = "delete_topic_and_subscriptions"
    /\ call_result.pc = "subs"
    /\ call_result.todo = <<>>
    /\ IF error # "none" \/ ~call_args.topic_exists
       THEN /\ call_result' =
                   [call_result EXCEPT
                       !.pc = "raised",
                       !.raised = GaxError(IF error # "none" THEN error
                                           ELSE "NOT_FOUND")]
            /\ UNCHANGED call_args
       ELSE /\ call_result' = [call_result EXCEPT
                                   !.pc = "returned",
                                   !.calls = Append(@, DeleteTopicCall)]
            /\ call_args' = [call_args EXCEPT !.topic_exists = FALSE]

\* Another tear down of the same project deletes a subscription or the
\* topic.
OtherTearDown ==
    /\ call_args.op = "delete_topic_and_subscriptions"
    /\ \/ \E sub \in call_args.subscriptions :
              call_args' = [call_args EXCEPT !.subscriptions = @ \ {sub}]
       \/ /\ call_args.topic_exists
          /\ call_args' = [call_args EXCEPT !.topic_exists = FALSE]
    /\ UNCHANGED call_result

InitPubSub ==
    /\ InitDb
    /\ InitRequest
    /\ InitOther
    /\ call_args \in [op : {"delete_topic_and_subscriptions"},
                      topic_exists : BOOLEAN,
                      subscriptions : SUBSET Subscriptions]
    /\ call_result = [pc |-> "list", listed |-> FALSE, listing |-> <<>>,
                      todo |-> <<>>, calls |-> <<>>,
                      raised |-> [type |-> "none", cause |-> "none"]]

NextPubSub ==
    /\ \/ \E error \in ServiceErrors \cup {"none"} :
              \/ list_topic_subscriptions(error)
              \/ delete_subscription(error)
              \/ delete_topic(error)
       \/ OtherTearDown
    /\ UNCHANGED <<dbVars, reqVars, otherVars>>

SpecPubSub == InitPubSub /\ [][NextPubSub]_vars

(***************************************************************************)
(* The Counters column of the rows create_job_run and create_job insert.   *)
(***************************************************************************)
CounterSuffixes == <<"", "List", "Copy">>

CounterKeys ==
    <<"totalTasks", "tasksCompleted", "tasksFailed", "tasksQueued",
      "tasksUnqueued",
      "totalTasksList", "tasksCompletedList", "tasksFailedList",
      "tasksQueuedList", "tasksUnqueuedList",
      "totalTasksCopy", "tasksCompletedCopy", "tasksFailedCopy",
      "tasksQueuedCopy", "tasksUnqueuedCopy">>

\* json.dumps of a dict of integers: the members "key": value one after
\* the other.
json_dumps(dict) ==
    [i \in 1..Len(SelectSeq(CounterKeys, LAMBDA k : k \in DOMAIN dict)) |->
        LET key == SelectSeq(CounterKeys, LAMBDA k : k \in DOMAIN dict)[i]
        IN  <<key, dict[key]>>]

\* json.loads of an object: a later member replaces an earlier one of the
\* same key.
json_loads(members) ==
    [key \in {members[i][1] : i \in DOMAIN members} |->
        members[CHOOSE i \in DOMAIN members :
                    /\ members[i][1] = key
                    /\ \A j \in DOMAIN members :
                           members[j][1] = key => j <= i][2]]

create_job_run_counters_without_unqueued(initial_total_tasks) ==
    [key \in Range(CounterKeys) |->
        IF key \in {"totalTasks", "totalTasksList"}
        THEN initial_total_tasks
        ELSE 0]

\* The dict `counters` of SpannerWrapper.create_job_run.
create_job_run_counters(initial_total_tasks) ==
    [key \in Range(CounterKeys) |->
        IF key \in {"totalTasks", "tasksUnqueued",
                    "totalTasksList", "tasksUnqueuedList"}
        THEN initial_total_tasks
        ELSE 0]

\* The dict `job_counters` of job_utilities.create_job.
job_counters ==
    [key \in Range(CounterKeys) |->
        IF key \in {"totalTasks", "tasksUnqueued",
                    "totalTasksList", "tasksUnqueuedList"}
        THEN 1
        ELSE 0]

\* SpannerWrapper.create_job_run with all its columns (the creation time
\* left out): one insert on JobRuns.
create_job_run_row(config_id, run_id, initial_total_tasks) ==
    /\ <<config_id, run_id>> \notin {RunKey(r) : r \in jobRuns}
    /\ jobRuns' = jobRuns \cup
           {[JobConfigId |-> config_id,
             JobRunId |-> run_id,
             Status |-> JOB_STATUS_IN_PROGRESS,
             Counters |-> json_dumps(
                              create_job_run_counters(initial_total_tasks))]}
    /\ UNCHANGED <<jobConfigs, tasks>>
    /\ UNCHANGED <<reqVars, callVars, otherVars>>

\* job_utilities.create_job with the Counters column: config, run and list
\* task in one batch.
create_job_rows(config_name, run_name) ==
    /\ config_name \notin jobConfigs
    /\ <<config_name, run_name>> \notin {RunKey(r) : r \in jobRuns}
    /\ <<config_name, run_name, "list">> \notin {TaskKey(t) : t \in tasks}
    /\ jobConfigs' = jobConfigs \cup {config_name}
    /\ jobRuns' = jobRuns \cup
           {[JobConfigId |-> config_name,
             JobRunId |-> run_name,
             Status |-> JOB_STATUS_IN_PROGRESS,
             Counters |-> json_dumps(job_counters)]}
    /\ tasks' = tasks \cup {[JobConfigId |-> config_name,
                             JobRunId |-> run_name,
                             TaskId |-> "list",
                             Status |-> TASK_STATUS_UNQUEUED,
                             TaskType |-> TASK_TYPE_LIST]}
    /\ UNCHANGED <<reqVars, callVars, otherVars>>

NextCounters ==
    \/ \E c \in ConfigIds, r \in RunIds,
          initial_total_tasks \in 0..MaxInitialTotalTasks :
           create_job_run_row(c, r, initial_total_tasks)
    \/ \E c \in ConfigIds, r \in RunIds : create_job_rows(c, r)

SpecCounters == Init /\ [][NextCounters]_vars

(***************************************************************************)
(* Properties.                                                             *)
(***************************************************************************)
Items == content.items

\* The tasks of a config that are QUEUED or UNQUEUED in the current table.
TasksInProgressOf(config_id) ==
    {t \in tasks : /\ t.JobConfigId = config_id
                   /\ t.Status \in {TASK_STATUS_QUEUED, TASK_STATUS_UNQUEUED}}

\* The step in which run_in_transaction ends and the route answers.
TransactionEnds == pc = "commit" /\ pc' = "ready"

\* The config ids named in a message.
MessageNames(message) == Range(message) \cap ConfigIds

\* C1: when every id of the (non-empty) request has no QUEUED or UNQUEUED
\* task, the transaction ends with one delete on JobConfigs whose keys are the
\* input list, exactly the rows with those ids leave the table, and the value
\* returned has all of them in delible_configs and none in indelible_configs.
C1_IdleRequestDeletedExactly ==
    [][(TransactionEnds /\ \A i \in DOMAIN Items : TasksInProgressOf(Items[i]) = {})
        => /\ Len(Items) > 0
           /\ Len(mutations) = 1
           /\ mutations[1].table = JOB_CONFIGS_TABLE
           /\ mutations[1].keys = Items
           /\ jobConfigs' = jobConfigs \ Range(Items)
           /\ returned'.type = "dict"
           /\ returned'.value.delible_configs = Items
           /\ returned'.value.indelible_configs = <<>>]_vars

C1_Witness ==
    /\ pc = "ready" /\ commit_outcome = "committed"
    /\ Items = <<"a", "b">>
    /\ returned.value.delible_configs = Items
    /\ jobConfigs = {}
    /\ \A c \in ConfigIds : \E t \in tasks : t.JobConfigId = c

\* C2: when every id of the request has a QUEUED or UNQUEUED task, no delete
\* is buffered, no row of any table changes, the commit of the empty
\* transaction raises ValueError, and the value returned still has the whole
\* input list in indelible_configs and nothing in delible_configs.
C2_BusyRequestDeletesNothing ==
    [][(TransactionEnds /\ \A i \in DOMAIN Items : TasksInProgressOf(Items[i]) # {})
        => /\ mutations = <<>>
           /\ jobConfigs' = jobConfigs /\ jobRuns' = jobRuns /\ tasks' = tasks
           /\ commit_outcome' = "ValueError"
           /\ returned'.type = "dict"
           /\ returned'.value.indelible_configs = Items
           /\ returned'.value.delible_configs = <<>>]_vars

C2_Witness ==
    /\ pc = "ready" /\ commit_outcome = "ValueError"
    /\ Items = <<"a", "b">>
    /\ returned.type = "dict"
    /\ returned.value.indelible_configs = Items
    /\ jobConfigs = ConfigIds

\* The number of positions up to i whose count is positive (busy) or not.
BusyUpTo(count_rows, i) == Cardinality({j \in 1..i : count_rows[j] > 0})
IdleUpTo(count_rows, i) == Cardinality({j \in 1..i : ~(count_rows[j] > 0)})

\* C3: position i of the list goes to indelible_configs iff its own count is
\* positive, else to delible_configs, whatever the other counts are, and both
\* lists keep the order of the input.
C3_PartitionPerIdInOrder ==
    call_result.done =>
        LET l == call_args.config_id_list
            r == call_args.rows
            out == call_result.value
        IN  /\ Len(out.indelible_configs) = BusyUpTo(r, Len(l))
            /\ Len(out.delible_configs) = IdleUpTo(r, Len(l))
            /\ \A i \in DOMAIN l :
                   IF r[i] > 0
                   THEN out.indelible_configs[BusyUpTo(r, i)] = l[i]
                   ELSE out.delible_configs[IdleUpTo(r, i)] = l[i]

C3_Witness ==
    /\ call_result.done
    /\ call_args.config_id_list = <<"a", "b">>
    /\ call_args.rows = <<2, 0>>
    /\ call_result.value = [delible_configs |-> <<"b">>,
                            indelible_configs |-> <<"a">>]

\* C4: a row leaves JobConfigs only in the commit of the delete transaction,
\* and only if the count read for its id in that transaction was zero.
C4_DeletedOnlyIfCountReadZero ==
    [][\A c \in jobConfigs \ jobConfigs' :
           /\ pc = "commit"
           /\ \E i \in DOMAIN Items : Items[i] = c
           /\ \A i \in DOMAIN Items : Items[i] = c => rows[i] = 0]_vars

C4_Witness ==
    /\ pc = "ready" /\ commit_outcome = "committed"
    /\ Items = <<"a", "b">>
    /\ rows = <<1, 0>>
    /\ jobConfigs = {"a"}

\* C5: at the commit of the delete no deleted key has a QUEUED or UNQUEUED
\* task: no task insertion commits between the count read and the delete.
C5_NoTaskInProgressAtCommit ==
    [][(pc = "commit" /\ commit_outcome' = "committed")
        => \A c \in KeysDeleted(JOB_CONFIGS_TABLE) : TasksInProgressOf(c) = {}]_vars

C5_Witness ==
    /\ pc = "ready" /\ commit_outcome = "committed" /\ retried
    /\ returned.value.delible_configs # <<>>
    /\ returned.value.indelible_configs # <<>>

\* C6: a step of the delete request changes neither JobRuns nor Tasks, removes
\* no JobConfigs row that is outside the request or has tasks in progress,
\* adds none, and buffers at most one mutation, a delete on JobConfigs.
C6_DeleteFrame ==
    [][(pc' # pc \/ response' # response)
        => /\ jobRuns' = jobRuns
           /\ tasks' = tasks
           /\ jobConfigs' \subseteq jobConfigs
           /\ \A c \in jobConfigs :
                  (c \notin Range(Items) \/ TasksInProgressOf(c) # {})
                      => c \in jobConfigs'
           /\ Len(mutations') <= 1
           /\ \A i \in DOMAIN mutations' :
                  mutations'[i].table = JOB_CONFIGS_TABLE]_vars

C6_Witness ==
    /\ pc = "ready" /\ commit_outcome = "committed"
    /\ Items = <<"a">>
    /\ jobConfigs = {"b"}
    /\ jobRuns # {}
    /\ \E t \in tasks : t.JobConfigId = "a"

\* C7: when the wrapper returned, the route answers BAD_REQUEST iff some
\* requested config has tasks in progress, its message names exactly those
\* configs, the other requested configs are deleted all the same, and it
\* answers OK with the requested ids only when all of them were deleted.
C7_RouteAnswer ==
    [][(TransactionEnds /\ returned'.type = "dict")
        => LET busy == {c \in Range(Items) : TasksInProgressOf(c) # {}}
           IN  /\ (busy # {}) <=> (response'.code = "BAD_REQUEST")
               /\ (busy = {}) <=> (response'.code = "OK")
               /\ response'.code = "BAD_REQUEST"
                      => /\ MessageNames(response'.message) = busy
                         /\ (Range(Items) \ busy) \cap jobConfigs' = {}
               /\ response'.code = "OK"
                      => /\ response'.body = Items
                         /\ Range(Items) \cap jobConfigs' = {}]_vars

C7_Witness ==
    /\ pc = "ready" /\ commit_outcome = "committed"
    /\ response.code = "BAD_REQUEST"
    /\ MessageNames(response.message) = {"b"}
    /\ Items = <<"a", "b">>
    /\ "a" \notin jobConfigs

\* C8: delete_job_configs returns the list of the configs it could not
\* delete, or None when every input config was deleted.
C8_ReturnsIndelibleListOrNone ==
    returned.type # "NoReturn" =>
        IF transaction_read_result.indelible_configs = <<>>
        THEN returned.type = "NoneType"
        ELSE /\ returned.type = "list"
             /\ returned.value = transaction_read_result.indelible_configs

\* The exception the claim expects for a GaxError status.
MappedException(status) ==
    CASE status = "PERMISSION_DENIED" -> [type |-> "Forbidden", cause |-> "none"]
      [] status = "NOT_FOUND" -> [type |-> "NotFound", cause |-> "none"]
      [] status = "UNAUTHENTICATED" -> [type |-> "Unauthorized", cause |-> "none"]
      [] status = "ALREADY_EXISTS" -> [type |-> "Conflict", cause |-> "none"]
      [] OTHER -> [type |-> "GaxError", cause |-> status]

\* C9: in every SpannerWrapper operation, delete_job_configs included, a
\* GaxError with one of the four mapped statuses reaches the caller as
\* Forbidden, NotFound, Unauthorized or Conflict, any other unchanged.
C9_GaxErrorsMappedInEveryOperation ==
    call_result.done => call_result.exc = MappedException(call_args.status)

\* C10: every JobRuns row has its first list task and every task its run, in
\* every state another transaction can read.
C10_RunAlongsideFirstTask ==
    /\ \A r \in jobRuns :
           \E t \in tasks : /\ t.JobConfigId = r.JobConfigId
                            /\ t.JobRunId = r.JobRunId
                            /\ t.TaskType = TASK_TYPE_LIST
    /\ \A t \in tasks :
           \E r \in jobRuns : /\ r.JobConfigId = t.JobConfigId
                              /\ r.JobRunId = t.JobRunId

(***************************************************************************)
(* Properties of the autoupdate script.                                    *)
(***************************************************************************)
\* The handle names a process of `table` that has not ended.
RunningIn(table, handle) ==
    handle # None /\ table[handle.pid].returncode = None

\* The handles main may hold: None and the processes started so far.
Handles == {None} \cup {Popen(pid) : pid \in {q \in Pids : procs[q].born}}

\* The version the update source gave differs from the local one.
RemoteVersionDiffers ==
    /\ frame.read.result.value # None
    /\ frame.read.result.value # version

C12_FallbackWheneverNotAlive ==
    [][(/\ agent_pc = "updated"
        /\ agent_pc' = "return"
        /\ ~RunningIn(procs, frame.process)) =>
            /\ frame'.downloads =
                   Append(frame.downloads, Str(STABLE_AGENT_BINARY_ADDRESS))
            /\ frame'.read.url = Str(STABLE_AGENT_BINARY_ADDRESS)
            /\ frame'.latest_prod_version = frame'.read.result.value
      ]_vars

\* C13: agent_release_version returns the AgentVersion when it is present,
\* and None without raising when the URL cannot be opened, the object is
\* not found, the answer is not JSON or a key is absent.
VersionPresent(r) ==
    /\ r.urlopen = "ok"
    /\ r.parses
    /\ r.json.type = "dict"
    /\ "metadata" \in DOMAIN r.json.items
    /\ r.json.items.metadata.type = "dict"
    /\ "AgentVersion" \in DOMAIN r.json.items.metadata.items

KeyAbsent(r) ==
    /\ r.urlopen = "ok"
    /\ r.parses
    /\ r.json.type = "dict"
    /\ \/ "metadata" \notin DOMAIN r.json.items
       \/ /\ r.json.items.metadata.type = "dict"
          /\ "AgentVersion" \notin DOMAIN r.json.items.metadata.items

C14_AliveIffPollIsNone ==
    \A handle \in Handles :
        /\ is_process_alive(handle) <=>
               (handle # None /\ procs[handle.pid].returncode = None)
        /\ handle = None => ~is_process_alive(handle)
        /\ (handle # None /\ procs[handle.pid].returncode.type = "int") =>
               ~is_process_alive(handle)

\* A process has ended with exit code 0.
C14_Witness ==
    \E pid \in Pids : procs[pid].born /\ procs[pid].returncode = PyInt(0)

\* C15: update_url returns the stable URL for no process or an unreadable
\* agent source file, otherwise the contents of agent_source_<pid>.txt in
\* the log directory, the file delete_agent_source_file removes.
C15_UpdateUrlReadsTheDeletedFile ==
    \A handle \in Handles :
        IF handle = None
        THEN update_url(handle) = Str(STABLE_AGENT_BINARY_ADDRESS)
        ELSE LET in_log_dir ==
                     FileOf(log_dir \o <<"/">> \o AgentSourceName(handle.pid))
             IN  /\ update_url(handle) =
                        IF in_log_dir \in DOMAIN files
                        THEN files[in_log_dir]
                        ELSE Str(STABLE_AGENT_BINARY_ADDRESS)
                 /\ FileOf(update_url_filename(handle.pid)) =
                        FileOf(delete_agent_source_file_name(handle.pid))

(***************************************************************************)
(* Properties of infra_util.py.                                            *)
(***************************************************************************)
\* The statuses the builders reported, nested ones included.
ReportedStatuses ==
    {infra_statuses.items[key].value : key \in ComponentKeys}
    \cup {infra_statuses.items.pubsubStatus.items[key].value :
             key \in Range(TOPICS_SUBSCRIPTIONS)}

\* C16: create_infrastructure raises Conflict and creates nothing unless
\* every status, the status of every topic included, is NOT_FOUND; one
\* component in any other status is enough.
C16_CreateOnlyIfAllNotFound ==
    infra_request.op = "create_infrastructure" =>
        IF ReportedStatuses = {"NOT_FOUND"}
        THEN /\ infra_request.raised # "Conflict"
             /\ infra_request.calls # <<>>
        ELSE /\ infra_request.raised = "Conflict"
             /\ infra_request.calls = <<>>

\* One topic exists, all else is not found, and the request was refused.
C16_Witness ==
    /\ infra_request.op = "create_infrastructure"
    /\ infra_request.raised = "Conflict"
    /\ infra_statuses.items.pubsubStatus.items.uploadGCS = Str("RUNNING")
    /\ \A key \in ComponentKeys : infra_statuses.items[key] = Str("NOT_FOUND")
    /\ \A key \in Range(TOPICS_SUBSCRIPTIONS) \ {"uploadGCS"} :
           infra_statuses.items.pubsubStatus.items[key] = Str("NOT_FOUND")

\* C17: tear_infrastructure raises PreconditionFailed and deletes nothing
\* when a status, the status of a topic included, is DEPLOYING or DELETING;
\* for every other combination it goes on to delete the Spanner instance,
\* the topics and subscriptions, the cloud function and the DCP instance.
C17_TearUnlessDeployingOrDeleting ==
    infra_request.op = "tear_infrastructure" =>
        IF ReportedStatuses \cap {"DEPLOYING", "DELETING"} # {}
        THEN /\ infra_request.raised = "PreconditionFailed"
             /\ infra_request.calls = <<>>
        ELSE /\ infra_request.raised # "PreconditionFailed"
             /\ infra_request.calls # <<>>
             /\ infra_request.calls =
                    SubSeq(tear_infrastructure_calls, 1,
                           Len(infra_request.calls))
             /\ infra_request.raised = "none" =>
                    /\ infra_request.calls = tear_infrastructure_calls
                    /\ {c.method : c \in Range(infra_request.calls)} =
                           {"delete_instance",
                            "delete_topic_and_subscriptions",
                            "delete_function_async", "delete_instance_async"}
                    /\ {c.arg : c \in {d \in Range(infra_request.calls) :
                                d.method = "delete_topic_and_subscriptions"}} =
                           Range(TOPICS_SUBSCRIPTIONS)

\* A partly failed infrastructure was torn down completely.
C17_Witness ==
    /\ infra_request.op = "tear_infrastructure"
    /\ infra_request.raised = "none"
    /\ Len(infra_request.calls) = Len(tear_infrastructure_calls)
    /\ "FAILED" \in ReportedStatuses
    /\ "RUNNING" \in ReportedStatuses

(***************************************************************************)
(* Properties of the polling loops.                                        *)
(***************************************************************************)
WaitEnded == waiter.pc \in {"returned", "raised", "exited"}

\* C18: every polling loop that waits for a terminal state is bounded by a
\* fixed timeout and ends, by returning or by raising, and never polls
\* forever; the wait for jobs to complete before the tear down included.
C18_EveryWaitEnds == <>WaitEnded

\* C18, as it holds: the waits for a Compute operation and for a cloud
\* function to be deployed or deleted poll only while less than
\* timeout_seconds have passed, raise on a timeout only when they have
\* passed, and end; the wait of main for the jobs has no timeout.
C18_ApiWaitsEndWithinTimeout ==
    /\ [](waiter.loop \in ApiLoops /\ waiter.pc = "polling" =>
              clock - waiter.start_time < timeout_seconds + MaxSleep)
    /\ [](waiter.res = "timed out" =>
              /\ waiter.loop \in ApiLoops
              /\ waiter.pc = "raised"
              /\ clock - waiter.start_time >= timeout_seconds)
    /\ (waiter.loop \in ApiLoops => <>WaitEnded)

\* The wait for a Compute operation raised after the timeout had passed.
C18_Witness ==
    /\ waiter.loop = "_wait_operation_to_complete"
    /\ waiter.pc = "raised"
    /\ waiter.res = "timed out"
    /\ clock - waiter.start_time >= timeout_seconds

(***************************************************************************)
(* Properties of the read queries.                                         *)
(***************************************************************************)
RECURSIVE Flatten(_)
Flatten(pages) ==
    IF pages = <<>> THEN <<>> ELSE Head(pages) \o Flatten(Tail(pages))

SortedByCreationTime(page) ==
    \A i, j \in DOMAIN page :
        i < j => page[i].JobCreationTime >= page[j].JobCreationTime

\* C19: paging through get_job_runs with created_before as continuation
\* token gives pages sorted by creation time, most recent first, of at most
\* max_num_runs runs, and visits every job run exactly once, also when
\* several runs share one JobCreationTime.
C19_PagingVisitsEveryRunOnce ==
    LET visited == Flatten(call_result.pages)
    IN  /\ \A k \in DOMAIN call_result.pages :
               /\ SortedByCreationTime(call_result.pages[k])
               /\ Len(call_result.pages[k]) <= call_args.max_num_runs
        /\ SortedByCreationTime(visited)
        /\ \A i, j \in DOMAIN visited : i # j => visited[i] # visited[j]
        /\ call_result.done /\ call_result.raised = "none" =>
               Range(visited) = call_args.table

\* The tasks of the job run asked for, of the type asked for when one is
\* given, modified before last_modified when one is given.
TasksAskedFor ==
    {row \in call_args.table :
        /\ row.JobConfigId = call_args.config_id
        /\ row.JobRunId = call_args.run_id
        /\ call_args.task_type # None =>
               row.TaskType = call_args.task_type.value
        /\ call_args.last_modified # None =>
               row.LastModificationTime < call_args.last_modified.value}

\* C20: get_tasks_for_run returns only tasks of the given type for every
\* value of the TaskType enum, 0 included, and all tasks of the job run for
\* None; sorted by last modification time, most recent first, and limited
\* to max_num_tasks.
C20_OnlyTasksOfTheGivenType ==
    call_result.done /\ call_result.raised = "none" =>
        LET value == call_result.value
        IN  /\ Range(value) \subseteq TasksAskedFor
            /\ \A i, j \in DOMAIN value : i # j => value[i] # value[j]
            /\ \A i, j \in DOMAIN value :
                   i < j => value[i].LastModificationTime >=
                                value[j].LastModificationTime
            /\ Len(value) = IF Cardinality(TasksAskedFor) <
                                   call_args.max_num_tasks
                            THEN Cardinality(TasksAskedFor)
                            ELSE call_args.max_num_tasks

(***************************************************************************)
(* Properties of the tear down of create_infra's main.                     *)
(***************************************************************************)
UnfinishedTasks ==
    {t \in tasks : t.Status \notin {TASK_STATUS_FAILED, TASK_STATUS_SUCCESS}}

TearDownStarts ==
    /\ waiter.loop = "main"
    /\ waiter.pc # "returned"
    /\ waiter'.pc = "returned"

LoopIsLeft ==
    /\ waiter.loop = "main"
    /\ waiter.pc = "polling"
    /\ waiter'.pc = "leaving"

\* C21: without --force, tear_down_infrastructure does not start while the
\* database exists and a task has a status other than FAILED or SUCCESS;
\* with --force it starts without waiting.
C21_NoTearDownWhileTasksUnfinished ==
    [][/\ TearDownStarts =>
              \/ waiter.force
              \/ ~waiter.database_exists
              \/ UnfinishedTasks = {}
       /\ waiter.loop = "main" /\ waiter.pc = "polling" /\ waiter.force =>
              waiter'.pc # "sleeping"]_vars

\* C21, as it holds: tear_down_infrastructure starts only in the modes
\* TearDown and CreateThenTearDown and only after the loop was left; without
\* --force the loop is left only by a check that found no database or no
\* task other than FAILED or SUCCESS, and is not left by a check that found
\* such a task; with --force the first check leaves it.  Tasks written after
\* that check do not hold the tear down back.
C21_TearDownAfterACheckFoundNoUnfinishedTask ==
    [][/\ TearDownStarts =>
              /\ waiter.pc = "leaving"
              /\ waiter.mode \in {"TearDown", "CreateThenTearDown"}
       /\ LoopIsLeft =>
              \/ waiter.force
              \/ ~waiter.database_exists
              \/ UnfinishedTasks = {}
       /\ /\ waiter.loop = "main"
          /\ waiter.pc = "polling"
          /\ waiter.database_exists
          /\ UnfinishedTasks # {}
          /\ ~waiter.force
          => waiter'.pc \in {"polling", "sleeping"}
       /\ waiter.loop = "main" /\ waiter.pc = "polling" /\ waiter.force =>
              waiter'.pc \in {"polling", "leaving"}]_vars

\* The tear down started without --force, on an existing database, after a
\* check that had to wait at least once.
C21_Witness ==
    /\ waiter.loop = "main"
    /\ waiter.pc = "returned"
    /\ ~waiter.force
    /\ waiter.database_exists
    /\ tasks # {}
    /\ UnfinishedTasks = {}

(***************************************************************************)
(* Properties of delete_topic_and_subscriptions.                           *)
(***************************************************************************)
\* C22: delete_topic_and_subscriptions deletes every subscription listed
\* and afterwards the topic; when the listing fails with NOT_FOUND it
\* deletes nothing and returns normally; a GaxError of any other status
\* propagates and the topic is not deleted.
C22_AllSubscriptionsThenTopic ==
    /\ call_result.pc = "returned" =>
           IF call_result.listed
           THEN call_result.calls =
                    [i \in 1..Len(call_result.listing) |->
                        DeleteSubscriptionCall(call_result.listing[i])]
                    \o <<DeleteTopicCall>>
           ELSE call_result.calls = <<>>
    /\ call_result.pc = "raised" =>
           /\ call_result.raised.type = "GaxError"
           /\ DeleteTopicCall \notin Range(call_result.calls)

(***************************************************************************)
(* Properties of the autoupdate loop across iterations.                    *)
(***************************************************************************)
AliveAgents == {pid \in Pids : procs[pid].born /\ procs[pid].returncode = None}

\* C23: across the iterations of the autoupdate loop, failed downloads,
\* failed starts and errors while stopping the old agent included, at most
\* one agent process started by the script is alive at any time.
C23_AtMostOneAgentAlive == Cardinality(AliveAgents) <= 1

Returns == agent_pc = "return" /\ agent_pc' = "sleep"

ReturnsWhatItWasGiven ==
    /\ process' = frame.process
    /\ version' = version

\* C26: check_and_update_agent_if_needed never propagates an exception to
\* main's loop; on any exception raised during the check, the download or
\* the start it returns the process handle it holds and the local_version
\* it was given.
C26_AnyExceptionReturnsLocalVersion ==
    /\ [](agent_pc # "crashed")
    /\ [][Returns /\ (\/ frame.raised # "none"
                      \/ \E i \in DOMAIN frame.ended :
                             frame.ended[i] # "none")
              => ReturnsWhatItWasGiven]_vars

\* C26, as it holds: no exception leaves check_and_update_agent_if_needed;
\* on an exception that reaches its except clause it returns the process
\* handle it holds and the local_version it was given.  An IOError or
\* OSError inside download_and_start_agent is caught there and makes that
\* function return None; the call then goes on and returns the version it
\* read last.
C26_UncaughtExceptionReturnsLocalVersion ==
    /\ [](agent_pc # "crashed")
    /\ [](frame.raised # "none" => agent_pc = "return")
    /\ [][Returns /\ frame.raised # "none" => ReturnsWhatItWasGiven]_vars

\* The call is about to return after an exception of the download reached
\* its except clause, with another version read than the one it was given.
C26_Witness ==
    /\ agent_pc = "return"
    /\ frame.raised = "zlib.error"
    /\ frame.read.result.value # None
    /\ frame.read.result.value # version

StableUrl == Str(STABLE_AGENT_BINARY_ADDRESS)

\* As far as the call with locals `f` has used the stable URL, the URL was
\* reachable and named a version, and its binary was downloaded and started.
StableUrlWasFine(f) ==
    /\ f.read.url = StableUrl =>
           /\ f.read.result.raised = "none"
           /\ f.read.result.value # None
    /\ \A i \in DOMAIN f.downloads :
           f.downloads[i] = StableUrl => f.ended[i] = "none"

\* C27: with the stable URL reachable and its binary starting and running,
\* an agent that has died or has failed to start is replaced within one
\* iteration of the loop, so that an agent is alive whenever a call of
\* check_and_update_agent_if_needed is about to return.
C27_AgentAliveAfterEveryCheck ==
    [][/\ agent_pc # "return"
       /\ agent_pc' = "return"
       /\ StableUrlWasFine(frame')
       => /\ frame'.process # None
          /\ frame'.process.pid \in AliveAgents']_vars

(***************************************************************************)
(* Properties of the creation of the infrastructure.                       *)
(***************************************************************************)
\* The positions of the calls of `method` in `made`.
PositionsOf(made, method) == {i \in DOMAIN made : made[i].method = method}

Follows(made, first, second) ==
    \A j \in PositionsOf(made, second) :
        \E i \in PositionsOf(made, first) : i < j

FollowsItsOwn(made, first, second) ==
    \A j \in PositionsOf(made, second) :
        \E i \in PositionsOf(made, first) :
            i < j /\ made[i].arg = made[j].arg

CreationOrder(made) ==
    /\ Follows(made, "create_instance", "create_database")
    /\ \A j \in PositionsOf(made, "create_topic") :
           PositionsOf(SubSeq(made, 1, j), "create_database") # {}
    /\ FollowsItsOwn(made, "create_topic", "create_subscription")
    /\ \A j \in PositionsOf(made, "create_function_async") :
           /\ {made[i].arg : i \in PositionsOf(SubSeq(made, 1, j),
                                               "create_topic")}
                  = Range(TOPICS_SUBSCRIPTIONS)
           /\ {made[i].arg : i \in PositionsOf(SubSeq(made, 1, j),
                                               "create_subscription")}
                  = Range(TOPICS_SUBSCRIPTIONS)
    /\ \A j \in PositionsOf(made, "create_instance_async") :
           /\ j = Len(made)
           /\ PositionsOf(made, "create_function_async") # {}
    /\ \A i, j \in DOMAIN made : i # j => made[i] # made[j]

\* C28: every request creates in the dependency order: the Spanner instance
\* before its database, the database before any topic, each topic before
\* its subscription, all topics and subscriptions before the cloud
\* function, the DCP instance last; a call that raises is the last one.
C28_CreationFollowsDependencyOrder ==
    /\ [](\A c \in Creators : CreationOrder(creators[c].made))
    /\ [][\A c \in Creators :
              creators[c].raised # "none" => creators'[c] = creators[c]]_vars
    /\ [](\A c \in Creators :
              creators[c].pc = "done" /\ creators[c].raised = "none" =>
                  Len(creators[c].made) = 2 * Len(TOPICS_SUBSCRIPTIONS) + 4)

\* A request raised while creating a subscription, after its topic and
\* before the cloud function.
C28_Witness ==
    \E c \in Creators :
        /\ creators[c].raised = "Exception"
        /\ creators[c].made # <<>>
        /\ creators[c].made[Len(creators[c].made)].method =
               "create_subscription"

\* C29: of the create_infrastructure requests of one project that run at
\* the same time, at most one passes the all-NOT_FOUND check; the others
\* end with Conflict, having created nothing.
C29_AtMostOnePassesTheCheck ==
    /\ Cardinality({c \in Creators :
                       creators[c].pc = "create" \/ creators[c].made # <<>>})
           <= 1
    /\ \A c \in Creators :
           creators[c].raised = "Conflict" => creators[c].made = <<>>

(***************************************************************************)
(* Properties of the value delete_job_configs returns.                     *)
(***************************************************************************)
\* The number of positions of sequence s that hold x.
CountIn(s, x) == Cardinality({i \in DOMAIN s : s[i] = x})

\* C24: for every input list, duplicates included, every position of
\* config_id_list is in exactly one of delible_configs and
\* indelible_configs of the dict returned: the lengths add up to the length
\* of the list and every id is there as often as it was requested.
C24_EveryPositionInExactlyOneList ==
    returned.type = "dict" =>
        LET out == returned.value
        IN  /\ Len(out.delible_configs) + Len(out.indelible_configs)
                   = Len(Items)
            /\ \A c \in ConfigIds :
                   /\ CountIn(out.delible_configs, c)
                          + CountIn(out.indelible_configs, c)
                          = CountIn(Items, c)
                   /\ CountIn(out.delible_configs, c) = 0
                          \/ CountIn(out.indelible_configs, c) = 0

C24_Witness ==
    /\ pc = "ready" /\ commit_outcome = "committed"
    /\ Items = <<"a", "a">>
    /\ returned.type = "dict"
    /\ returned.value.delible_configs = <<"a", "a">>
    /\ returned.value.indelible_configs = <<>>

\* C25: when the database aborted the transaction and ran the callback
\* again, the dict returned is the partition computed by the last run of
\* the callback alone: delible_configs are the keys of the delete that run
\* buffered, exactly the rows with those ids leave JobConfigs at the
\* commit, and no id is there because of an aborted run.
C25_ReturnsThePartitionOfTheLastRun ==
    [][(TransactionEnds /\ retried /\ returned'.type = "dict")
        => LET last == get_delible_indelible_configs(
                           Items, get_all_tasks_in_progress(tasks, Items))
           IN  /\ returned'.value = last
               /\ Range(last.delible_configs) = KeysDeleted(JOB_CONFIGS_TABLE)
               /\ jobConfigs' = jobConfigs \ Range(last.delible_configs)
               /\ \A c \in Range(last.delible_configs) :
                      TasksInProgressOf(c) = {}]_vars

C25_Witness ==
    /\ pc = "ready" /\ commit_outcome = "committed" /\ retried
    /\ Items = <<"a", "b">>
    /\ returned.type = "dict"
    /\ returned.value.delible_configs = <<"b">>
    /\ returned.value.indelible_configs = <<"a">>
    /\ jobConfigs = {"a"}

(***************************************************************************)
(* Properties of the Counters of a new job run.                            *)
(***************************************************************************)
\* The counters of the tasks of one type ("" for all types) add up.
CountersAddUp(counters, suffix) ==
    counters["totalTasks" \o suffix] =
        counters["tasksCompleted" \o suffix]
        + counters["tasksFailed" \o suffix]
        + counters["tasksQueued" \o suffix]
        + counters["tasksUnqueued" \o suffix]

TasksOfRun(r) ==
    {t \in tasks : t.JobConfigId = r.JobConfigId /\ t.JobRunId = r.JobRunId}

====
